---- MODULE Spec2Model ----
(***************************************************************************)
(* A model of the console/performance diagnostics of ayotype's            *)
(* claude-agent-runtime (utils/diagnostics.py, drivers/playwright_driver.py)*)
(* and of the browser test scripts that use them.                          *)
(*                                                                         *)
(* A Python str is modelled as a sequence of one-character strings, so     *)
(* that lower(), upper(), concatenation and the `in` substring test are    *)
(* computed character by character as the interpreter does.                *)
(***************************************************************************)
EXTENDS Integers, Sequences, FiniteSets, TLC

VARIABLES
    input, kind,            \* the classifier applied to one text
    logs, categories,       \* ConsoleDiagnostics.logs / .categories
    metrics, timestamps,    \* PerformanceMonitor.metrics / .timestamps
    now,                    \* the wall clock read by datetime.now()
    ret,                    \* the value returned by the last PerformanceMonitor call
    driver,                 \* the BrowserDriver of a test script
    script, phase, ip,      \* the script run, and where it is
    nav_result,             \* what driver.navigate returned
    analysis,               \* what the eval read by the verdict returned
    verdict,                \* the verdict the run printed
    events,                 \* the events the page emitted since the last clear_console_logs
    called,                 \* the last call made on the driver, and how it ended
    shots,                  \* how often screenshot returned each path
    history,                \* SessionState: the rolling metric history
    recorded,               \* the number of datapoints recorded so far
    issues,                 \* SessionState: the IssueRecords of the running process
    store,                  \* the persisted session store: its IssueRecords
    tracked,                \* the track calls made so far: text and category
    loaded,                 \* a process run has loaded the store and not saved yet
    trend,                  \* what the last trends(history) call returned
    has_driver,             \* ClaudeAgent.driver holds the BrowserDriver (else None)
    task_history,           \* ClaudeAgent.task_history
    tasks,                  \* the execute_task calls: where each is, its task_record
    inits,                  \* the init() / initialize() calls: where each is
    launched,               \* the playwright instances, browsers, contexts and pages created
    wfc,                    \* the wait_for_condition call: its arguments and locals
    cleared                 \* how many entries the last ConsoleDiagnostics.clear dropped

clVars == <<input, kind>>
cdVars == <<logs, categories, cleared>>
pmVars == <<metrics, timestamps, now, ret>>
runVars == <<driver, script, phase, ip, nav_result, analysis, verdict>>
drvVars == <<events, called, shots>>
ssVars == <<history, recorded, issues, store, tracked, loaded, trend>>
agVars == <<has_driver, task_history, tasks, inits, launched, wfc>>
vars == <<input, kind, logs, categories, metrics, timestamps, now, ret,
          driver, script, phase, ip, nav_result, analysis, verdict,
          events, called, shots,
          history, recorded, issues, store, tracked, loaded, trend,
          has_driver, task_history, tasks, inits, launched, wfc, cleared>>

----------------------------------------------------------------------------
(* Bounds of the model *)

\* longest ConsoleDiagnostics.logs explored
MaxLogs == 3
\* longest list handed to add_logs
MaxBatch == 2
\* number of tokens concatenated into a classifier input
MaxTokens == 2
\* most samples a PerformanceMonitor holds, over all metrics
MaxSamples == 3
\* last reading of the wall clock
MaxClock == 1
\* most console and page-error events of one run
MaxEvents == 2

----------------------------------------------------------------------------
(* Python str operations on character sequences *)

UpperChars ==
    <<"A", "B", "C", "D", "E", "F", "G", "H", "I", "J", "K", "L", "M",
      "N", "O", "P", "Q", "R", "S", "T", "U", "V", "W", "X", "Y", "Z">>

LowerChars ==
    <<"a", "b", "c", "d", "e", "f", "g", "h", "i", "j", "k", "l", "m",
      "n", "o", "p", "q", "r", "s", "t", "u", "v", "w", "x", "y", "z">>

\* the lower-case letter of each upper-case letter
ToLower ==
    [c \in {UpperChars[i] : i \in 1..Len(UpperChars)} |->
        LowerChars[CHOOSE i \in 1..Len(UpperChars) : UpperChars[i] = c]]

\* the upper-case letter of each lower-case letter
ToUpper ==
    [c \in {LowerChars[i] : i \in 1..Len(LowerChars)} |->
        UpperChars[CHOOSE i \in 1..Len(LowerChars) : LowerChars[i] = c]]

\* str.lower() of one character
LowerChar(c) == IF c \in DOMAIN ToLower THEN ToLower[c] ELSE c

\* str.upper() of one character
UpperChar(c) == IF c \in DOMAIN ToUpper THEN ToUpper[c] ELSE c

\* str.lower()
lower(s) == [i \in 1..Len(s) |-> LowerChar(s[i])]

\* str.upper()
upper(s) == [i \in 1..Len(s) |-> UpperChar(s[i])]

\* the Python test `needle in hay` on two str
Contains(hay, needle) ==
    \E i \in 0..(Len(hay) - Len(needle)) :
        \A j \in 1..Len(needle) : hay[i + j] = needle[j]

----------------------------------------------------------------------------
(* The literals of _categorize_log *)

\* "[error]"
TagError ==
    <<"[", "e", "r", "r", "o", "r", "]">>
\* "[page_error]"
TagPageError ==
    <<"[", "p", "a", "g", "e", "_", "e", "r", "r", "o", "r", "]">>
\* "[warning]"
TagWarning ==
    <<"[", "w", "a", "r", "n", "i", "n", "g", "]">>
\* "[warn]"
TagWarn ==
    <<"[", "w", "a", "r", "n", "]">>
\* "[info]"
TagInfo ==
    <<"[", "i", "n", "f", "o", "]">>
\* "[log]"
TagLog ==
    <<"[", "l", "o", "g", "]">>
\* "[debug]"
TagDebug ==
    <<"[", "d", "e", "b", "u", "g", "]">>
\* "network"
WordNetwork ==
    <<"n", "e", "t", "w", "o", "r", "k">>
\* "fetch"
WordFetch ==
    <<"f", "e", "t", "c", "h">>
\* "xhr"
WordXhr ==
    <<"x", "h", "r">>

----------------------------------------------------------------------------
(* Log texts the model feeds to ConsoleDiagnostics *)

\* "[ERROR] network down"
TextErrorNetwork ==
    <<"[", "E", "R", "R", "O", "R", "]", " ", "n", "e", "t", "w", "o", "r", "k", " ", "d", "o", "w", "n">>
\* "[ERROR] TypeError: x is undefined"
TextExampleError ==
    <<"[", "E", "R", "R", "O", "R", "]", " ", "T", "y", "p", "e", "E", "r", "r", "o", "r", ":", " ", "x", " ", "i", "s", " ", "u", "n", "d", "e", "f", "i", "n", "e", "d">>
\* "[WARNING] deprecated API"
TextExampleWarning ==
    <<"[", "W", "A", "R", "N", "I", "N", "G", "]", " ", "d", "e", "p", "r", "e", "c", "a", "t", "e", "d", " ", "A", "P", "I">>
\* "[PAGE_ERROR] boom"
TextPageError ==
    <<"[", "P", "A", "G", "E", "_", "E", "R", "R", "O", "R", "]", " ", "b", "o", "o", "m">>
\* "[Warn] fetch slow"
TextWarnFetch ==
    <<"[", "W", "a", "r", "n", "]", " ", "f", "e", "t", "c", "h", " ", "s", "l", "o", "w">>
\* "[LOG] xhr ok"
TextLogXhr ==
    <<"[", "L", "O", "G", "]", " ", "x", "h", "r", " ", "o", "k">>
\* "[debug] tick"
TextDebug ==
    <<"[", "d", "e", "b", "u", "g", "]", " ", "t", "i", "c", "k">>
\* "Fetch /api"
TextFetch ==
    <<"F", "e", "t", "c", "h", " ", "/", "a", "p", "i">>
\* "error: no tag"
TextPlain ==
    <<"e", "r", "r", "o", "r", ":", " ", "n", "o", " ", "t", "a", "g">>
\* "TypeError: x is undefined"
StrippedExampleError ==
    <<"T", "y", "p", "e", "E", "r", "r", "o", "r", ":", " ", "x", " ", "i", "s", " ", "u", "n", "d", "e", "f", "i", "n", "e", "d">>
\* "deprecated API"
StrippedExampleWarning ==
    <<"d", "e", "p", "r", "e", "c", "a", "t", "e", "d", " ", "A", "P", "I">>

Texts ==
    {TextErrorNetwork, TextExampleError, TextExampleWarning, TextPageError,
     TextWarnFetch, TextLogXhr, TextDebug, TextFetch, TextPlain}

(* Tokens concatenated into the inputs of the classifier *)

\* "[ERROR]"
TokErrorUpper ==
    <<"[", "E", "R", "R", "O", "R", "]">>
\* "[Error]"
TokErrorMixed ==
    <<"[", "E", "r", "r", "o", "r", "]">>
\* "[PAGE_ERROR]"
TokPageError ==
    <<"[", "P", "A", "G", "E", "_", "E", "R", "R", "O", "R", "]">>
\* "[Warning]"
TokWarning ==
    <<"[", "W", "a", "r", "n", "i", "n", "g", "]">>
\* "[WARN]"
TokWarn ==
    <<"[", "W", "A", "R", "N", "]">>
\* "[INFO]"
TokInfo ==
    <<"[", "I", "N", "F", "O", "]">>
\* "[log]"
TokLog ==
    <<"[", "l", "o", "g", "]">>
\* "[DEBUG]"
TokDebug ==
    <<"[", "D", "E", "B", "U", "G", "]">>
\* "Network"
TokNetwork ==
    <<"N", "e", "t", "w", "o", "r", "k">>
\* "FETCH"
TokFetch ==
    <<"F", "E", "T", "C", "H">>
\* "xhr"
TokXhr ==
    <<"x", "h", "r">>
\* "error"
TokBareError ==
    <<"e", "r", "r", "o", "r">>
\* "["
TokBracket ==
    <<"[">>
\* " ok"
TokOther ==
    <<" ", "o", "k">>

Tokens ==
    {TokErrorUpper, TokErrorMixed, TokPageError, TokWarning, TokWarn, TokInfo,
     TokLog, TokDebug, TokNetwork, TokFetch, TokXhr, TokBareError, TokBracket,
     TokOther}

RECURSIVE Concat(_)
\* the concatenation of a sequence of str
Concat(ss) ==
    IF ss = <<>> THEN <<>> ELSE Head(ss) \o Concat(Tail(ss))

\* every text made of at most MaxTokens tokens
ClassifyInputs ==
    {Concat(ts) : ts \in UNION {[1..n -> Tokens] : n \in 0..MaxTokens}}

----------------------------------------------------------------------------
(* ConsoleDiagnostics (utils/diagnostics.py) *)

\* Optional[...]: None, or a value
None == <<>>
Some(x) == <<x>>

CategoryNames == {"errors", "warnings", "info", "debug", "network", "other"}

\* ConsoleDiagnostics.__init__: the six empty categories
EmptyCategories == [c \in CategoryNames |-> <<>>]

\* the object as one value: self
cd == [logs |-> logs, categories |-> categories]

\* the text after the leading "[tag] " of a log, the log itself without one
StripTag(log) ==
    IF log # <<>> /\ log[1] = "[" /\ \E i \in 1..Len(log) - 1 : log[i] = "]" /\ log[i + 1] = " "
    THEN LET i == CHOOSE k \in 1..Len(log) - 1 :
                    /\ log[k] = "]" /\ log[k + 1] = " "
                    /\ \A m \in 1..k - 1 : ~(log[m] = "]" /\ log[m + 1] = " ")
         IN SubSeq(log, i + 2, Len(log))
    ELSE log

\* _categorize_log with the keyword rule tried before the tag rules
categorize_log_keyword_first(cats, log) ==
    LET log_lower == lower(log) IN
    IF Contains(log_lower, WordNetwork) \/ Contains(log_lower, WordFetch)
          \/ Contains(log_lower, WordXhr)
    THEN [cats EXCEPT !["network"] = Append(@, log)]
    ELSE IF Contains(log_lower, TagError) \/ Contains(log_lower, TagPageError)
    THEN [cats EXCEPT !["errors"] = Append(@, log)]
    ELSE IF Contains(log_lower, TagWarning) \/ Contains(log_lower, TagWarn)
    THEN [cats EXCEPT !["warnings"] = Append(@, log)]
    ELSE IF Contains(log_lower, TagInfo) \/ Contains(log_lower, TagLog)
    THEN [cats EXCEPT !["info"] = Append(@, log)]
    ELSE IF Contains(log_lower, TagDebug)
    THEN [cats EXCEPT !["debug"] = Append(@, log)]
    ELSE [cats EXCEPT !["other"] = Append(@, log)]

\* _categorize_log that files a repeated error under "other"
categorize_log_dedup(cats, log) ==
    LET log_lower == lower(log) IN
    IF \E i \in 1..Len(cats["errors"]) : cats["errors"][i] = log
    THEN [cats EXCEPT !["other"] = Append(@, log)]
    ELSE IF Contains(log_lower, TagError) \/ Contains(log_lower, TagPageError)
    THEN [cats EXCEPT !["errors"] = Append(@, log)]
    ELSE IF Contains(log_lower, TagWarning) \/ Contains(log_lower, TagWarn)
    THEN [cats EXCEPT !["warnings"] = Append(@, log)]
    ELSE IF Contains(log_lower, TagInfo) \/ Contains(log_lower, TagLog)
    THEN [cats EXCEPT !["info"] = Append(@, log)]
    ELSE IF Contains(log_lower, TagDebug)
    THEN [cats EXCEPT !["debug"] = Append(@, log)]
    ELSE IF Contains(log_lower, WordNetwork) \/ Contains(log_lower, WordFetch)
          \/ Contains(log_lower, WordXhr)
    THEN [cats EXCEPT !["network"] = Append(@, log)]
    ELSE [cats EXCEPT !["other"] = Append(@, log)]

\* _categorize_log that stores the message without its tag
categorize_log_strip_tag(cats, log) ==
    LET log_lower == lower(log) IN
    IF Contains(log_lower, TagError) \/ Contains(log_lower, TagPageError)
    THEN [cats EXCEPT !["errors"] = Append(@, StripTag(log))]
    ELSE IF Contains(log_lower, TagWarning) \/ Contains(log_lower, TagWarn)
    THEN [cats EXCEPT !["warnings"] = Append(@, StripTag(log))]
    ELSE IF Contains(log_lower, TagInfo) \/ Contains(log_lower, TagLog)
    THEN [cats EXCEPT !["info"] = Append(@, StripTag(log))]
    ELSE IF Contains(log_lower, TagDebug)
    THEN [cats EXCEPT !["debug"] = Append(@, StripTag(log))]
    ELSE IF Contains(log_lower, WordNetwork) \/ Contains(log_lower, WordFetch)
          \/ Contains(log_lower, WordXhr)
    THEN [cats EXCEPT !["network"] = Append(@, log)]
    ELSE [cats EXCEPT !["other"] = Append(@, log)]

\* ConsoleDiagnostics._categorize_log: self.categories after the call
_categorize_log(cats, log) ==
    LET log_lower == lower(log) IN
    IF Contains(log_lower, TagError) \/ Contains(log_lower, TagPageError)
    THEN [cats EXCEPT !["errors"] = Append(@, log)]
    ELSE IF Contains(log_lower, TagWarning) \/ Contains(log_lower, TagWarn)
    THEN [cats EXCEPT !["warnings"] = Append(@, log)]
    ELSE IF Contains(log_lower, TagInfo) \/ Contains(log_lower, TagLog)
    THEN [cats EXCEPT !["info"] = Append(@, log)]
    ELSE IF Contains(log_lower, TagDebug)
    THEN [cats EXCEPT !["debug"] = Append(@, log)]
    ELSE IF Contains(log_lower, WordNetwork) \/ Contains(log_lower, WordFetch)
          \/ Contains(log_lower, WordXhr)
    THEN [cats EXCEPT !["network"] = Append(@, log)]
    ELSE [cats EXCEPT !["other"] = Append(@, log)]

\* the category _categorize_log files a log under on a fresh instance
classify(log) ==
    CHOOSE c \in CategoryNames : _categorize_log(EmptyCategories, log)[c] # <<>>

\* ConsoleDiagnostics.add_log
add_log(self, log) ==
    [logs |-> Append(self.logs, log),
     categories |-> _categorize_log(self.categories, log)]

RECURSIVE add_logs(_, _)
\* ConsoleDiagnostics.add_logs: add_log for each entry, in order
add_logs(self, ls) ==
    IF ls = <<>> THEN self ELSE add_logs(add_log(self, Head(ls)), Tail(ls))

\* ConsoleDiagnostics.clear that forgets the categories
clear_logs_only(self) ==
    [logs |-> <<>>, categories |-> self.categories]

\* ConsoleDiagnostics.clear that leaves the other category as it is
clear_keep_other(self) ==
    [logs |-> <<>>,
     categories |-> [c \in DOMAIN self.categories |->
                        IF c = "other" THEN self.categories[c] ELSE <<>>]]

\* ConsoleDiagnostics.clear
ConsoleDiagnostics_clear(self) ==
    [logs |-> <<>>, categories |-> [c \in DOMAIN self.categories |-> <<>>]]

\* ConsoleDiagnostics.get_errors
get_errors(self) == self.categories["errors"]

\* ConsoleDiagnostics.get_warnings
get_warnings(self) == self.categories["warnings"]

\* ConsoleDiagnostics.has_errors
has_errors(self) == Len(self.categories["errors"]) > 0

\* ConsoleDiagnostics.has_warnings
has_warnings(self) == Len(self.categories["warnings"]) > 0

\* ConsoleDiagnostics.get_summary
ConsoleDiagnostics_get_summary(self) ==
    [c \in DOMAIN self.categories |-> Len(self.categories[c])]

(* The operations of a ConsoleDiagnostics as actions *)

CdInit == logs = <<>> /\ categories = EmptyCategories /\ cleared = None

ClInit == input = <<>> /\ kind = "none"

AddLog(log) ==
    /\ Len(logs) < MaxLogs
    /\ logs' = add_log(cd, log).logs
    /\ categories' = add_log(cd, log).categories
    /\ UNCHANGED cleared
    /\ UNCHANGED <<agVars, drvVars, ssVars, clVars, pmVars, runVars>>

AddLogs(ls) ==
    /\ Len(logs) + Len(ls) <= MaxLogs
    /\ logs' = add_logs(cd, ls).logs
    /\ categories' = add_logs(cd, ls).categories
    /\ UNCHANGED cleared
    /\ UNCHANGED <<agVars, drvVars, ssVars, clVars, pmVars, runVars>>

Clear ==
    /\ logs' = ConsoleDiagnostics_clear(cd).logs
    /\ categories' = ConsoleDiagnostics_clear(cd).categories
    /\ cleared' = Some(Len(logs))
    /\ UNCHANGED <<agVars, drvVars, ssVars, clVars, pmVars, runVars>>

Batches == UNION {[1..n -> Texts] : n \in 1..MaxBatch}

(* The classifier applied once to one text *)

Classify ==
    /\ kind = "none"
    /\ kind' = CHOOSE c \in CategoryNames :
                  _categorize_log(EmptyCategories, input)[c] = <<input>>
    /\ UNCHANGED <<input, logs, categories, cleared, pmVars, runVars, drvVars, ssVars, agVars>>

----------------------------------------------------------------------------
(* Claims about the classifier and ConsoleDiagnostics *)

\* the rule table of the classifier: category, the needles that select it
Rules ==
    << <<"errors", {TagError, TagPageError}>>,
       <<"warnings", {TagWarning, TagWarn}>>,
       <<"info", {TagInfo, TagLog}>>,
       <<"debug", {TagDebug}>>,
       <<"network", {WordNetwork, WordFetch, WordXhr}>> >>

\* needle occurs in hay, letters compared without regard to case
ContainsCI(hay, needle) ==
    \E i \in 0..(Len(hay) - Len(needle)) :
        \A j \in 1..Len(needle) : LowerChar(hay[i + j]) = LowerChar(needle[j])

RuleMatches(r, text) == \E needle \in Rules[r][2] : ContainsCI(text, needle)

\* the category of the first rule that matches, "other" when none does
FirstMatch(text) ==
    IF \E r \in 1..Len(Rules) : RuleMatches(r, text)
    THEN Rules[CHOOSE r \in 1..Len(Rules) :
                  RuleMatches(r, text) /\ \A q \in 1..r - 1 : ~RuleMatches(q, text)][1]
    ELSE "other"

\* C1: classification is first-match over the rule order errors, warnings,
\* info, debug, network, other, matching case-insensitively; a text with an
\* [ERROR] tag and the word network or fetch is an error, never network; every
\* input gets a category.
C1_FirstMatchClassification ==
    kind # "none" =>
        /\ kind \in CategoryNames
        /\ kind = FirstMatch(input)
        /\ (ContainsCI(input, TagError) => kind = "errors")

\* an input with an upper-case [ERROR] tag and the word network, classified
C1_Witness ==
    /\ kind = "errors"
    /\ Contains(input, TokErrorUpper)
    /\ ContainsCI(input, WordNetwork)

\* the category each text of Texts gets on a fresh instance
KindOf == [l \in Texts |-> classify(l)]

\* the category the rule table gives each text of Texts
FirstMatchOf == [l \in Texts |-> FirstMatch(l)]

\* C2: the six categories partition logs in order: categories[c] is the
\* subsequence of logs classified c, and the counts of get_summary add up to
\* len(logs).
C2_CategoriesPartitionLogs ==
    /\ \A c \in CategoryNames :
          categories[c] = SelectSeq(logs, LAMBDA l : KindOf[l] = c)
    /\ \A i \in 1..Len(logs) :
          Cardinality({c \in CategoryNames :
                          \E k \in 1..Len(categories[c]) : categories[c][k] = logs[i]}) = 1
    /\ LET s == ConsoleDiagnostics_get_summary(cd) IN
          s["errors"] + s["warnings"] + s["info"] + s["debug"] + s["network"] + s["other"]
             = Len(logs)

\* three logs in three categories, errors after a later-kind log
C2_Witness ==
    /\ Len(logs) = MaxLogs
    /\ Cardinality({c \in CategoryNames : categories[c] # <<>>}) >= 2
    /\ \E c \in CategoryNames : Len(categories[c]) >= 2

\* C3: the category add_log files a text under depends on the text alone: in
\* every state it is the category the text gets on a fresh instance, and no
\* other category changes.
C3_ClassificationStateless ==
    \A l \in Texts :
        LET after == add_log(cd, l).categories IN
        \A c \in CategoryNames :
            after[c] = IF c = KindOf[l] THEN Append(categories[c], l) ELSE categories[c]

\* the same text added twice, filed twice under its one category
C3_Witness ==
    \E i, j \in 1..Len(logs) :
        /\ i < j
        /\ logs[i] = logs[j]
        /\ Len(categories[KindOf[logs[i]]]) >= 2
        /\ \A k \in 1..Len(categories[KindOf[logs[i]]]) :
              categories[KindOf[logs[i]]][k] = logs[i]

\* ConsoleDiagnostics(): a fresh instance
FreshDiagnostics == [logs |-> <<>>, categories |-> EmptyCategories]

\* the object after the step
cd_after == [logs |-> logs', categories |-> categories']

\* C26: clear() resets a ConsoleDiagnostics to its initial state: after it
\* logs and the six categories are empty, the six keys exist, has_errors()
\* and has_warnings() are False and get_summary() is zero for every
\* category; the add_log calls that follow give the logs and categories they
\* give on a fresh instance.
C26_ClearResetsToInitialState ==
    /\ [][Clear =>
            /\ cd_after = FreshDiagnostics
            /\ DOMAIN categories' = CategoryNames
            /\ \A c \in CategoryNames : categories'[c] = <<>>
            /\ ~has_errors(cd_after) /\ ~has_warnings(cd_after)
            /\ \A c \in CategoryNames : ConsoleDiagnostics_get_summary(cd_after)[c] = 0
            /\ \A ls \in Batches : add_logs(cd_after, ls) = add_logs(FreshDiagnostics, ls)]_vars
    /\ [](cleared # None => cd = add_logs(FreshDiagnostics, logs))

\* clear() dropped entries, one of them filed under other, and the add_log
\* calls made since filled two categories
C26_Witness ==
    /\ cleared # None
    /\ cleared[1] >= 1
    /\ Len(logs) >= 2
    /\ categories["errors"] # <<>>
    /\ categories["other"] # <<>>

ExampleLogs == <<TextExampleError, TextExampleWarning>>

\* C9 as stated: the error and warning lists hold the message text without the
\* bracketed tag.
C9_ErrorsWithoutTag ==
    logs = ExampleLogs =>
        /\ get_errors(cd) = <<StrippedExampleError>>
        /\ get_warnings(cd) = <<StrippedExampleWarning>>

\* C9 amended: the error and warning lists hold the complete entries of the
\* error-kind and warning-kind logs, bracketed tag included, in log order.
C9_ErrorsKeepTag ==
    /\ get_errors(cd) = SelectSeq(logs, LAMBDA l : FirstMatchOf[l] = "errors")
    /\ get_warnings(cd) = SelectSeq(logs, LAMBDA l : FirstMatchOf[l] = "warnings")
    /\ \A i \in 1..Len(get_errors(cd)) :
          ContainsCI(get_errors(cd)[i], TagError) \/ ContainsCI(get_errors(cd)[i], TagPageError)
    /\ \A i \in 1..Len(get_warnings(cd)) :
          ContainsCI(get_warnings(cd)[i], TagWarning) \/ ContainsCI(get_warnings(cd)[i], TagWarn)
    /\ (logs = ExampleLogs =>
          get_errors(cd) = <<TextExampleError>> /\ get_warnings(cd) = <<TextExampleWarning>>)

\* the example logs added, the lists holding the tagged entries
C9_Witness ==
    /\ logs = ExampleLogs
    /\ get_errors(cd) = <<TextExampleError>>
    /\ get_warnings(cd) = <<TextExampleWarning>>

----------------------------------------------------------------------------
(* PerformanceMonitor (utils/diagnostics.py) *)

\* metric names passed to the recorder; "" is a str like any other
MetricNames == {"", "load", "fcp"}

\* sample values; 0 is a measured zero
Values == {0, 5}

\* the object as one value: self
pm == [metrics |-> metrics, timestamps |-> timestamps]

\* d[key] = value on a dict (the key is created when missing)
DictSet(d, key, value) ==
    [k \in DOMAIN d \cup {key} |-> IF k = key THEN value ELSE d[k]]

\* d[key] on a defaultdict(list), read only: the list, [] for a missing key
DictList(d, key) == IF key \in DOMAIN d THEN d[key] ELSE <<>>

\* an empty dict
EmptyDict == [k \in {} |-> <<>>]

RECURSIVE SumSeq(_)
\* sum(values)
SumSeq(values) ==
    IF values = <<>> THEN 0 ELSE Head(values) + SumSeq(Tail(values))

RECURSIVE py_min(_)
\* min(values) of a non-empty list
py_min(values) ==
    IF Len(values) = 1 THEN values[1]
    ELSE LET m == py_min(Tail(values)) IN IF m < Head(values) THEN m ELSE Head(values)

RECURSIVE py_max(_)
\* max(values) of a non-empty list
py_max(values) ==
    IF Len(values) = 1 THEN values[1]
    ELSE LET m == py_max(Tail(values)) IN IF m > Head(values) THEN m ELSE Head(values)

\* record_metric that inserts the sample at the front
record_metric_prepend(self, name, value, stamp) ==
    [metrics |-> DictSet(self.metrics, name, <<value>> \o DictList(self.metrics, name)),
     timestamps |-> DictSet(self.timestamps, name,
                            <<stamp>> \o DictList(self.timestamps, name))]

\* PerformanceMonitor.record_metric; stamp is datetime.now().isoformat()
record_metric(self, name, value, stamp) ==
    [metrics |-> DictSet(self.metrics, name, Append(DictList(self.metrics, name), value)),
     timestamps |-> DictSet(self.timestamps, name,
                            Append(DictList(self.timestamps, name), stamp))]

\* get_metric written self.metrics[name]: the defaultdict creates the key
get_metric_subscript(self, name) ==
    [self |-> [self EXCEPT !.metrics =
                   IF name \in DOMAIN self.metrics THEN @ ELSE DictSet(@, name, <<>>)],
     result |-> DictList(self.metrics, name)]

\* PerformanceMonitor.get_metric: self after the call, and the list returned
get_metric(self, name) ==
    [self |-> self,
     result |-> IF name \in DOMAIN self.metrics THEN self.metrics[name] ELSE <<>>]

\* PerformanceMonitor.get_average; the quotient sum/len is kept as <<sum, len>>
get_average(self, name) ==
    LET r == get_metric(self, name) IN
    [self |-> r.self,
     result |-> IF r.result # <<>>
                THEN Some(<<SumSeq(r.result), Len(r.result)>>) ELSE None]

\* PerformanceMonitor.get_min
get_min(self, name) ==
    LET r == get_metric(self, name) IN
    [self |-> r.self,
     result |-> IF r.result # <<>> THEN Some(py_min(r.result)) ELSE None]

\* PerformanceMonitor.get_max
get_max(self, name) ==
    LET r == get_metric(self, name) IN
    [self |-> r.self,
     result |-> IF r.result # <<>> THEN Some(py_max(r.result)) ELSE None]

\* PerformanceMonitor.get_latest
get_latest(self, name) ==
    LET r == get_metric(self, name) IN
    [self |-> r.self,
     result |-> IF r.result # <<>> THEN Some(r.result[Len(r.result)]) ELSE None]

\* get_summary that reports the first sample as the latest
get_summary_latest_first(self) ==
    [name \in {n \in DOMAIN self.metrics : self.metrics[n] # <<>>} |->
        LET values == self.metrics[name] IN
        [count |-> Len(values),
         average |-> <<SumSeq(values), Len(values)>>,
         min |-> py_min(values),
         max |-> py_max(values),
         latest |-> values[1]]]

\* PerformanceMonitor.get_summary
PerformanceMonitor_get_summary(self) ==
    [name \in {n \in DOMAIN self.metrics : self.metrics[n] # <<>>} |->
        LET values == self.metrics[name] IN
        [count |-> Len(values),
         average |-> <<SumSeq(values), Len(values)>>,
         min |-> py_min(values),
         max |-> py_max(values),
         latest |-> values[Len(values)]]]

\* the truth value of an Optional[str] argument: None and "" are falsy
Truthy(arg) == arg # None /\ arg[1] # ""

\* clear that leaves the timestamps of the named metric in place
clear_keep_timestamps(self, metric_name) ==
    IF Truthy(metric_name)
    THEN IF metric_name[1] \in DOMAIN self.metrics
         THEN [metrics |-> DictSet(self.metrics, metric_name[1], <<>>),
               timestamps |-> self.timestamps]
         ELSE self
    ELSE [metrics |-> EmptyDict, timestamps |-> EmptyDict]

\* PerformanceMonitor.clear; metric_name is None or Some(name)
PerformanceMonitor_clear(self, metric_name) ==
    IF Truthy(metric_name)
    THEN IF metric_name[1] \in DOMAIN self.metrics
         THEN [metrics |-> DictSet(self.metrics, metric_name[1], <<>>),
               timestamps |-> DictSet(self.timestamps, metric_name[1], <<>>)]
         ELSE self
    ELSE [metrics |-> EmptyDict, timestamps |-> EmptyDict]

(* The operations of a PerformanceMonitor as actions *)

RECURSIVE TotalSamples(_)
\* the number of samples held, over all metrics
TotalSamples(m) ==
    IF DOMAIN m = {} THEN 0
    ELSE LET k == CHOOSE x \in DOMAIN m : TRUE IN
         Len(m[k]) + TotalSamples([x \in DOMAIN m \ {k} |-> m[x]])

\* the value returned by a call that returns nothing
NoReturn(op) == [op |-> op, name |-> None, result |-> None]

PmInit ==
    /\ metrics = EmptyDict
    /\ timestamps = EmptyDict
    /\ now = 0
    /\ ret = NoReturn("__init__")

\* the wall clock moves on
Tick ==
    /\ now < MaxClock
    /\ now' = now + 1
    /\ UNCHANGED <<metrics, timestamps, ret>>
    /\ UNCHANGED <<agVars, drvVars, ssVars, clVars, cdVars, runVars>>

RecordMetric(name, value) ==
    /\ TotalSamples(metrics) < MaxSamples
    /\ metrics' = record_metric(pm, name, value, now).metrics
    /\ timestamps' = record_metric(pm, name, value, now).timestamps
    /\ ret' = NoReturn("record_metric")
    /\ UNCHANGED now
    /\ UNCHANGED <<agVars, drvVars, ssVars, clVars, cdVars, runVars>>

GetAverage(name) ==
    /\ metrics' = get_average(pm, name).self.metrics
    /\ timestamps' = get_average(pm, name).self.timestamps
    /\ ret' = [op |-> "get_average", name |-> Some(name),
               result |-> get_average(pm, name).result]
    /\ UNCHANGED now
    /\ UNCHANGED <<agVars, drvVars, ssVars, clVars, cdVars, runVars>>

GetMin(name) ==
    /\ metrics' = get_min(pm, name).self.metrics
    /\ timestamps' = get_min(pm, name).self.timestamps
    /\ ret' = [op |-> "get_min", name |-> Some(name), result |-> get_min(pm, name).result]
    /\ UNCHANGED now
    /\ UNCHANGED <<agVars, drvVars, ssVars, clVars, cdVars, runVars>>

GetMax(name) ==
    /\ metrics' = get_max(pm, name).self.metrics
    /\ timestamps' = get_max(pm, name).self.timestamps
    /\ ret' = [op |-> "get_max", name |-> Some(name), result |-> get_max(pm, name).result]
    /\ UNCHANGED now
    /\ UNCHANGED <<agVars, drvVars, ssVars, clVars, cdVars, runVars>>

GetLatest(name) ==
    /\ metrics' = get_latest(pm, name).self.metrics
    /\ timestamps' = get_latest(pm, name).self.timestamps
    /\ ret' = [op |-> "get_latest", name |-> Some(name),
               result |-> get_latest(pm, name).result]
    /\ UNCHANGED now
    /\ UNCHANGED <<agVars, drvVars, ssVars, clVars, cdVars, runVars>>

\* clear(metric_name), clear() being clear(None)
ClearMetrics(metric_name) ==
    /\ metrics' = PerformanceMonitor_clear(pm, metric_name).metrics
    /\ timestamps' = PerformanceMonitor_clear(pm, metric_name).timestamps
    /\ ret' = NoReturn("clear")
    /\ UNCHANGED now
    /\ UNCHANGED <<agVars, drvVars, ssVars, clVars, cdVars, runVars>>

ClearArgs == {None} \cup {Some(n) : n \in MetricNames}

----------------------------------------------------------------------------
(* Claims about PerformanceMonitor *)

IsPrefix(a, b) == Len(a) <= Len(b) /\ SubSeq(b, 1, Len(a)) = a

QueryOps == {"get_average", "get_min", "get_max", "get_latest"}

\* C5: get_average, get_min, get_max and get_latest return None, never a
\* number, for a name with zero samples (never recorded, or cleared), and the
\* query neither creates the metric nor changes the recorder.
C5_NoDataIsNone ==
    [][\A name \in MetricNames :
          (ret'.op \in QueryOps /\ ret'.name = Some(name)) =>
              /\ metrics' = metrics /\ timestamps' = timestamps
              /\ (DictList(metrics, name) = <<>> => ret'.result = None)
              /\ (DictList(metrics, name) # <<>> => ret'.result # None)]_vars

\* a query of a cleared metric (its key still there) has returned None, and
\* a never-recorded name is still no key
C5_Witness ==
    /\ ret.op \in QueryOps
    /\ ret.result = None
    /\ ret.name[1] \in DOMAIN metrics
    /\ metrics[ret.name[1]] = <<>>
    /\ \E n \in MetricNames : n \notin DOMAIN metrics
    /\ \E n \in MetricNames : DictList(metrics, n) # <<>>

\* C6: get_summary has an entry for exactly the names with a sample, and its
\* count, min, max and latest are the number of samples, the smallest, the
\* largest and the last recorded sample.
C6_SummaryMatchesSamples ==
    LET s == PerformanceMonitor_get_summary(pm) IN
    /\ DOMAIN s = {n \in MetricNames : DictList(metrics, n) # <<>>}
    /\ \A n \in DOMAIN s :
          LET v == metrics[n] IN
          /\ s[n].count = Len(v)
          /\ \E i \in 1..Len(v) : s[n].min = v[i]
          /\ \A i \in 1..Len(v) : s[n].min <= v[i]
          /\ \E i \in 1..Len(v) : s[n].max = v[i]
          /\ \A i \in 1..Len(v) : s[n].max >= v[i]
          /\ s[n].latest = v[Len(v)]
          /\ s[n].min <= s[n].latest /\ s[n].latest <= s[n].max
          /\ s[n].average[2] = s[n].count
          /\ s[n].count * s[n].min <= s[n].average[1]
          /\ s[n].average[1] <= s[n].count * s[n].max

\* one metric with three samples, its latest below its first and its max,
\* another cleared and absent from the summary
C6_Witness ==
    LET s == PerformanceMonitor_get_summary(pm) IN
    /\ \E n \in DOMAIN s :
          /\ s[n].count = MaxSamples
          /\ s[n].min < s[n].max
          /\ s[n].latest = s[n].min
          /\ metrics[n][1] = s[n].max
    /\ \E n \in DOMAIN metrics : n \notin DOMAIN s

\* C7 as stated: between any two successive states every metric's earlier
\* sample sequence is a prefix of the later one.
C7_AppendOnly ==
    [][\A n \in MetricNames :
          IsPrefix(DictList(metrics, n), DictList(metrics', n))]_vars

\* C7 amended: record_metric(name, v) adds v at the end of name's sequence and
\* leaves the earlier samples and the other metrics unchanged; a sequence
\* loses samples only by clear, which empties it.
C7_AppendOnlyUntilClear ==
    [][/\ \A n \in MetricNames :
             \/ IsPrefix(DictList(metrics, n), DictList(metrics', n))
             \/ /\ ret'.op = "clear"
                /\ \E a \in ClearArgs : ClearMetrics(a)
                /\ DictList(metrics', n) = <<>>
       /\ \A n \in MetricNames, v \in Values :
             (ret'.op = "record_metric" /\ RecordMetric(n, v)) =>
                 /\ DictList(metrics', n) = Append(DictList(metrics, n), v)
                 /\ \A m \in MetricNames \ {n} :
                       DictList(metrics', m) = DictList(metrics, m)]_vars

\* a metric with two different samples in recording order beside another
\* metric
C7_Witness ==
    \E n, m \in MetricNames :
        /\ n # m
        /\ DictList(metrics, n) = <<5, 0>>
        /\ DictList(metrics, m) # <<>>

\* C8: one timestamp per sample: the same names have timestamps and samples,
\* and each name has as many timestamps as samples.
C8_OneTimestampPerSample ==
    /\ DOMAIN timestamps = DOMAIN metrics
    /\ \A n \in DOMAIN metrics : Len(timestamps[n]) = Len(metrics[n])
    /\ {n \in DOMAIN timestamps : timestamps[n] # <<>>}
          = {n \in DOMAIN metrics : metrics[n] # <<>>}

\* a metric with two samples and two timestamps beside a cleared one
C8_Witness ==
    /\ \E n \in DOMAIN metrics : Len(metrics[n]) = 2 /\ Len(timestamps[n]) = 2
    /\ \E n \in DOMAIN metrics : metrics[n] = <<>> /\ timestamps[n] = <<>>

\* C20 as stated: clear(metric_name) with a string removes the samples and
\* timestamps of that metric only and leaves every other metric's samples and
\* timestamps unchanged, for every string passed as metric_name.
C20_ClearNamedMetricOnly ==
    [][\A name \in MetricNames :
          (ret'.op = "clear" /\ ClearMetrics(Some(name))) =>
              /\ DictList(metrics', name) = <<>>
              /\ DictList(timestamps', name) = <<>>
              /\ \A other \in MetricNames \ {name} :
                    /\ DictList(metrics', other) = DictList(metrics, other)
                    /\ DictList(timestamps', other) = DictList(timestamps, other)]_vars

----------------------------------------------------------------------------
(* BrowserDriver (drivers/playwright_driver.py) *)

\* "error"
TypeErrorMsg ==
    <<"e", "r", "r", "o", "r">>
\* "warning"
TypeWarningMsg ==
    <<"w", "a", "r", "n", "i", "n", "g">>
\* "log"
TypeLogMsg ==
    <<"l", "o", "g">>
\* "info"
TypeInfoMsg ==
    <<"i", "n", "f", "o">>
\* "debug"
TypeDebugMsg ==
    <<"d", "e", "b", "u", "g">>
\* "reCAPTCHA mocked"
TextMockReady ==
    <<"r", "e", "C", "A", "P", "T", "C", "H", "A", " ", "m", "o", "c", "k", "e", "d">>
\* "[PAGE_ERROR] "
PageErrorPrefix ==
    <<"[", "P", "A", "G", "E", "_", "E", "R", "R", "O", "R", "]", " ">>
\* "Message sent"
TextSent ==
    <<"M", "e", "s", "s", "a", "g", "e", " ", "s", "e", "n", "t">>

\* console messages the page emits: msg.type and msg.text
ConsoleMessages ==
    {[type |-> TypeErrorMsg, text |-> StrippedExampleError],
     [type |-> TypeWarningMsg, text |-> StrippedExampleWarning],
     [type |-> TypeLogMsg, text |-> TextMockReady]}

\* uncaught page errors the page emits: str(error)
PageErrors == {StrippedExampleError}

\* a reference that holds no object
NoObject == "None"

\* BrowserDriver.__init__
NewDriver ==
    [playwright |-> NoObject, browser |-> NoObject, context |-> NoObject,
     page |-> NoObject, initialized |-> FALSE, _console_logs |-> <<>>]

\* what a driver call gives back: the driver after it, the value returned,
\* the exception raised ("" when it returns)
Returned(self, value) == [self |-> self, result |-> value, raised |-> ""]
Raised(self, exception) == [self |-> self, result |-> None, raised |-> exception]

\* the awaits of init at which the browser library may fail
InitFailures == {"start", "launch", "new_context", "new_page", "makedirs"}

\* BrowserDriver.init; failAt is the step that fails, "none" when none does
init(self, failAt) ==
    IF self.initialized THEN Returned(self, None)
    ELSE IF failAt = "start" THEN Raised(self, "Error")
    ELSE LET s1 == [self EXCEPT !.playwright = "Playwright"] IN
    IF failAt = "launch" THEN Raised(s1, "Error")
    ELSE LET s2 == [s1 EXCEPT !.browser = "Browser"] IN
    IF failAt = "new_context" THEN Raised(s2, "Error")
    ELSE LET s3 == [s2 EXCEPT !.context = "Context"] IN
    IF failAt = "new_page" THEN Raised(s3, "Error")
    ELSE LET s4 == [s3 EXCEPT !.page = "Page"] IN
    IF failAt = "makedirs" THEN Raised(s4, "OSError")
    ELSE Returned([s4 EXCEPT !.initialized = TRUE], None)

\* _handle_console that tags the entry with msg.type as the browser gives it
handle_console_raw_type(self, msg) ==
    LET log_entry == <<"[">> \o msg.type \o <<"]", " ">> \o msg.text IN
    [self EXCEPT !._console_logs = Append(@, log_entry)]

\* BrowserDriver._handle_console
_handle_console(self, msg) ==
    LET log_entry == <<"[">> \o upper(msg.type) \o <<"]", " ">> \o msg.text IN
    [self EXCEPT !._console_logs = Append(@, log_entry)]

\* _handle_page_error that stores the error text without a tag
handle_page_error_untagged(self, error) ==
    [self EXCEPT !._console_logs = Append(@, error)]

\* BrowserDriver._handle_page_error
_handle_page_error(self, error) ==
    LET log_entry == PageErrorPrefix \o error IN
    [self EXCEPT !._console_logs = Append(@, log_entry)]

\* how a call into the page ends: it succeeds, or the library raises an
\* Exception (an error, a timeout)
Outcomes == {"ok", "error", "timeout"}

\* navigate that lets the failure propagate
navigate_reraise(self, outcome) ==
    IF self.page = NoObject THEN Raised(self, "RuntimeError")
    ELSE IF outcome = "ok" THEN Returned(self, Some(TRUE))
    ELSE Raised(self, "Error")

\* BrowserDriver.navigate
navigate(self, outcome) ==
    IF self.page = NoObject THEN Raised(self, "RuntimeError")
    ELSE IF outcome = "ok" THEN Returned(self, Some(TRUE))
    ELSE Returned(self, Some(FALSE))

\* BrowserDriver.eval; value is what the page evaluates the script to
eval(self, outcome, value) ==
    IF self.page = NoObject THEN Raised(self, "RuntimeError")
    ELSE IF outcome = "ok" THEN Returned(self, value)
    ELSE Returned(self, None)

\* BrowserDriver.click
click(self, outcome) ==
    IF self.page = NoObject THEN Raised(self, "RuntimeError")
    ELSE IF outcome = "ok" THEN Returned(self, Some(TRUE))
    ELSE Returned(self, Some(FALSE))

\* fill without the guard on self.page: None.fill raises AttributeError inside
\* the try block, which the except clause turns into False
fill_unguarded(self, outcome) ==
    IF self.page = NoObject THEN Returned(self, Some(FALSE))
    ELSE IF outcome = "ok" THEN Returned(self, Some(TRUE))
    ELSE Returned(self, Some(FALSE))

\* BrowserDriver.fill
fill(self, outcome) ==
    IF self.page = NoObject THEN Raised(self, "RuntimeError")
    ELSE IF outcome = "ok" THEN Returned(self, Some(TRUE))
    ELSE Returned(self, Some(FALSE))

\* BrowserDriver.wait_for_selector
wait_for_selector(self, outcome) ==
    IF self.page = NoObject THEN Raised(self, "RuntimeError")
    ELSE IF outcome = "ok" THEN Returned(self, Some(TRUE))
    ELSE Returned(self, Some(FALSE))

\* BrowserDriver.screenshot without a filename; the path is a name made of
\* the clock reading
screenshot(self, outcome, clock) ==
    IF self.page = NoObject THEN Raised(self, "RuntimeError")
    ELSE IF outcome = "ok" THEN Returned(self, Some(<<"screenshots/screenshot_", clock>>))
    ELSE Raised(self, "Error")

\* get_title that catches the failure and returns None, as eval does
get_title_caught(self, outcome) ==
    IF self.page = NoObject THEN Raised(self, "RuntimeError")
    ELSE IF outcome = "ok" THEN Returned(self, Some("title"))
    ELSE Returned(self, None)

\* BrowserDriver.get_title
get_title(self, outcome) ==
    IF self.page = NoObject THEN Raised(self, "RuntimeError")
    ELSE IF outcome = "ok" THEN Returned(self, Some("title"))
    ELSE Raised(self, "Error")

\* BrowserDriver.console_logs: a copy of the list
console_logs(self) == Returned(self, self._console_logs)

\* BrowserDriver.clear_console_logs
clear_console_logs(self) == Returned([self EXCEPT !._console_logs = <<>>], None)

\* the closes of close at which the browser library may fail
CloseFailures == {"page", "context", "browser", "playwright"}

\* close that returns at once on a driver that is not initialised
close_when_initialized(self, failAt) ==
    IF ~self.initialized THEN Returned(self, None)
    ELSE IF self.page # NoObject /\ failAt = "page" THEN Raised(self, "Error")
    ELSE LET s1 == [self EXCEPT !.page = NoObject] IN
    IF s1.context # NoObject /\ failAt = "context" THEN Raised(s1, "Error")
    ELSE LET s2 == [s1 EXCEPT !.context = NoObject] IN
    IF s2.browser # NoObject /\ failAt = "browser" THEN Raised(s2, "Error")
    ELSE LET s3 == [s2 EXCEPT !.browser = NoObject] IN
    IF s3.playwright # NoObject /\ failAt = "playwright" THEN Raised(s3, "Error")
    ELSE Returned([s3 EXCEPT !.playwright = NoObject, !.initialized = FALSE], None)

\* BrowserDriver.close; failAt is the close that fails, "none" when none does
close(self, failAt) ==
    IF self.page # NoObject /\ failAt = "page" THEN Raised(self, "Error")
    ELSE LET s1 == [self EXCEPT !.page = NoObject] IN
    IF s1.context # NoObject /\ failAt = "context" THEN Raised(s1, "Error")
    ELSE LET s2 == [s1 EXCEPT !.context = NoObject] IN
    IF s2.browser # NoObject /\ failAt = "browser" THEN Raised(s2, "Error")
    ELSE LET s3 == [s2 EXCEPT !.browser = NoObject] IN
    IF s3.playwright # NoObject /\ failAt = "playwright" THEN Raised(s3, "Error")
    ELSE Returned([s3 EXCEPT !.playwright = NoObject, !.initialized = FALSE], None)

----------------------------------------------------------------------------
(* The test scripts: test-contact-local.py, test-contact-submission.py,   *)
(* test-landing-local.py, test-emojifusion-local.py                        *)

Scripts == {"contact_local", "contact_submission", "landing", "emojifusion"}

\* the driver and diagnostics calls of each script's try block, in order;
\* "eval_analysis" is the eval whose result the verdict reads
Program(s) ==
    CASE s = "contact_local" ->
           <<"init", "navigate", "screenshot", "get_title", "eval_analysis",
             "collect", "verdict">>
      [] s = "contact_submission" ->
           <<"init", "navigate", "screenshot", "eval", "fill", "fill", "fill", "fill",
             "screenshot", "eval", "eval_analysis", "screenshot", "collect", "verdict">>
      [] s = "landing" ->
           <<"init", "navigate", "screenshot", "get_title", "eval_analysis",
             "eval", "eval", "eval", "screenshot", "collect", "verdict">>
      [] s = "emojifusion" ->
           <<"init", "navigate", "screenshot", "get_title", "wait_for_selector",
             "fill", "wait_for_selector", "eval", "eval_analysis", "eval_if_combos",
             "screenshot", "collect", "verdict">>

\* what the page can answer to the eval the verdict reads
Observations(s) ==
    CASE s = "contact_local" ->
           [hasForm : BOOLEAN, hasEmailField : BOOLEAN, hasSubmitButton : BOOLEAN]
      [] s = "contact_submission" ->
           [isSuccess : BOOLEAN, isError : BOOLEAN, messageText : {<<>>, TextSent}]
      [] s = "landing" ->
           [linkCount : {0, 4}, headingCount : {0, 2}]
      [] s = "emojifusion" ->
           [combos_count : {0, 3}]

\* the verdict of test_contact_page that ignores the console errors
verdict_contact_local_no_errors_check(diag, form_analysis) ==
    LET has_valid_form == form_analysis.hasForm /\ form_analysis.hasEmailField
                             /\ form_analysis.hasSubmitButton IN
    IF has_valid_form THEN "PASSED" ELSE "FAILED"

\* test_contact_page: the final verdict
verdict_contact_local(diag, form_analysis) ==
    LET has_valid_form == form_analysis.hasForm /\ form_analysis.hasEmailField
                             /\ form_analysis.hasSubmitButton IN
    IF ~has_errors(diag) /\ has_valid_form THEN "PASSED"
    ELSE IF has_valid_form THEN "PARTIAL"
    ELSE "FAILED"

\* test_contact_form_submission: the final verdict
verdict_contact_submission(diag, response_check) ==
    IF response_check.isSuccess THEN "PASSED"
    ELSE IF response_check.isError THEN "PARTIAL"
    ELSE IF response_check.messageText # <<>> THEN "INFO"
    ELSE "FAILED"

\* the verdict of test_landing_page that also wants a console without warnings
verdict_landing_no_warnings(diag, page_analysis) ==
    LET has_basic_structure == page_analysis.linkCount > 0
                                  /\ page_analysis.headingCount > 0 IN
    IF ~has_errors(diag) /\ ~has_warnings(diag) /\ has_basic_structure THEN "PASSED"
    ELSE IF has_basic_structure THEN "PARTIAL"
    ELSE "FAILED"

\* test_landing_page: the final verdict
verdict_landing(diag, page_analysis) ==
    LET has_basic_structure == page_analysis.linkCount > 0
                                  /\ page_analysis.headingCount > 0 IN
    IF ~has_errors(diag) /\ has_basic_structure THEN "PASSED"
    ELSE IF has_basic_structure THEN "PARTIAL"
    ELSE "FAILED"

\* test_emojifusion: the final verdict
verdict_emojifusion(diag, combos) ==
    IF ~has_errors(diag) /\ combos.combos_count > 0 THEN "PASSED"
    ELSE IF combos.combos_count > 0 /\ has_errors(diag) THEN "PARTIAL"
    ELSE "FAILED"

Verdict(s, diag, observed) ==
    CASE s = "contact_local" -> verdict_contact_local(diag, observed)
      [] s = "contact_submission" -> verdict_contact_submission(diag, observed)
      [] s = "landing" -> verdict_landing(diag, observed)
      [] s = "emojifusion" -> verdict_emojifusion(diag, observed)

\* the exit status of the interpreter once asyncio.run(...) is over: 0 when
\* the coroutine returned, 1 when an exception left it; None while it runs.
\* No script calls sys.exit.
ExitStatus ==
    IF phase = "done" THEN Some(0)
    ELSE IF phase = "raised" THEN Some(1)
    ELSE None

\* the verdicts a try block prints
Reported == {"PASSED", "PARTIAL", "INFO", "FAILED"}

(* A run of one script, one call per step *)

RunInit ==
    /\ script \in Scripts
    /\ phase = "try"
    /\ ip = 1
    /\ driver = NewDriver
    /\ nav_result = None
    /\ analysis = None
    /\ verdict = "none"

Stmt == IF phase = "try" THEN Program(script)[ip] ELSE "none"

\* the statement returned: go on with the next one, or leave the try block
Continue ==
    IF ip < Len(Program(script))
    THEN ip' = ip + 1 /\ phase' = "try"
    ELSE ip' = ip /\ phase' = "finally"

\* the statement raised an Exception: the except clause is next
Throw == ip' = ip /\ phase' = "except"

\* a call of the driver whose result the script does not read
Call(r) ==
    /\ driver' = r.self
    /\ IF r.raised = "" THEN Continue ELSE Throw
    /\ UNCHANGED <<script, nav_result, analysis, verdict>>
    /\ UNCHANGED <<agVars, drvVars, ssVars, clVars, cdVars, pmVars>>

RunInitDriver(failAt) ==
    /\ Stmt = "init"
    /\ Call(init(driver, failAt))

RunNavigate(outcome) ==
    /\ Stmt = "navigate"
    /\ LET r == navigate(driver, outcome) IN
       /\ driver' = r.self
       /\ nav_result' = r.result
       /\ IF r.raised = "" THEN Continue ELSE Throw
    /\ UNCHANGED <<script, analysis, verdict>>
    /\ UNCHANGED <<agVars, drvVars, ssVars, clVars, cdVars, pmVars>>

RunScreenshot(outcome) ==
    /\ Stmt = "screenshot"
    /\ Call(screenshot(driver, outcome, now))

RunGetTitle(outcome) ==
    /\ Stmt = "get_title"
    /\ Call(get_title(driver, outcome))

RunEval(outcome) ==
    /\ Stmt = "eval"
    /\ Call(eval(driver, outcome, Some("value")))

RunFill(outcome) ==
    /\ Stmt = "fill"
    /\ Call(fill(driver, outcome))

RunWaitForSelector(outcome) ==
    /\ Stmt = "wait_for_selector"
    /\ Call(wait_for_selector(driver, outcome))

\* the eval the verdict reads, and the first use of its result: subscripting
\* or comparing None raises TypeError
RunEvalAnalysis(outcome, observed) ==
    /\ Stmt = "eval_analysis"
    /\ LET r == eval(driver, outcome, Some(observed)) IN
       /\ driver' = r.self
       /\ analysis' = r.result
       /\ IF r.raised = "" /\ r.result # None THEN Continue ELSE Throw
    /\ UNCHANGED <<script, nav_result, verdict>>
    /\ UNCHANGED <<agVars, drvVars, ssVars, clVars, cdVars, pmVars>>

\* test_emojifusion: the first combo is read only when there is one
RunEvalIfCombos(outcome) ==
    /\ Stmt = "eval_if_combos"
    /\ IF analysis[1].combos_count > 0
       THEN Call(eval(driver, outcome, Some("combo")))
       ELSE Call(Returned(driver, None))

\* logs = await driver.console_logs(); diagnostics.add_logs(logs)
RunCollect ==
    /\ Stmt = "collect"
    /\ LET r == console_logs(driver) IN
       /\ driver' = r.self
       /\ logs' = add_logs(cd, r.result).logs
       /\ categories' = add_logs(cd, r.result).categories
       /\ UNCHANGED cleared
    /\ Continue
    /\ UNCHANGED <<script, nav_result, analysis, verdict>>
    /\ UNCHANGED <<agVars, drvVars, ssVars, clVars, pmVars>>

RunVerdict ==
    /\ Stmt = "verdict"
    /\ verdict' = Verdict(script, cd, analysis[1])
    /\ Continue
    /\ UNCHANGED <<script, driver, nav_result, analysis>>
    /\ UNCHANGED <<agVars, drvVars, ssVars, clVars, cdVars, pmVars>>

\* except Exception as e: print TEST ERROR
RunExcept ==
    /\ phase = "except"
    /\ verdict' = "ERROR"
    /\ phase' = "finally"
    /\ UNCHANGED <<script, ip, driver, nav_result, analysis>>
    /\ UNCHANGED <<agVars, drvVars, ssVars, clVars, cdVars, pmVars>>

\* finally: await driver.close()
RunFinally(failAt) ==
    /\ phase = "finally"
    /\ LET r == close(driver, failAt) IN
       /\ driver' = r.self
       /\ phase' = IF r.raised = "" THEN "done" ELSE "raised"
    /\ UNCHANGED <<script, ip, nav_result, analysis, verdict>>
    /\ UNCHANGED <<agVars, drvVars, ssVars, clVars, cdVars, pmVars>>

\* the page writes to its console while the script runs
ConsoleEvent(msg) ==
    /\ phase = "try"
    /\ driver.page # NoObject
    /\ Len(driver._console_logs) < MaxEvents
    /\ driver' = _handle_console(driver, msg)
    /\ UNCHANGED <<script, phase, ip, nav_result, analysis, verdict>>
    /\ UNCHANGED <<agVars, drvVars, ssVars, clVars, cdVars, pmVars>>

\* a script of the page throws
PageErrorEvent(error) ==
    /\ phase = "try"
    /\ driver.page # NoObject
    /\ Len(driver._console_logs) < MaxEvents
    /\ driver' = _handle_page_error(driver, error)
    /\ UNCHANGED <<script, phase, ip, nav_result, analysis, verdict>>
    /\ UNCHANGED <<agVars, drvVars, ssVars, clVars, cdVars, pmVars>>

----------------------------------------------------------------------------
(* Claims about the steps of a test-script run *)

\* C13 as stated: an exception raised by a sub-check after init is caught at
\* its call site and the run still collects the console logs and reaches its
\* verdict.
C13_SubCheckFailureKeepsRunning ==
    (phase = "done" /\ ip > 1) => verdict \in Reported

\* C13 amended: a failure inside eval, fill or wait_for_selector is absorbed
\* by the driver and the run goes on with its next call, nothing being added
\* to the diagnostics; an exception raised by get_title or screenshot reaches
\* the script's one except clause, which reports TEST ERROR and leaves the
\* remaining checks, the console-log collection and the verdict out; a run
\* that ended has reported either a verdict or TEST ERROR.
C13_ExceptionEndsRunWithTestError ==
    [][/\ \A outcome \in Outcomes \ {"ok"} :
             (RunGetTitle(outcome) \/ RunScreenshot(outcome)) =>
                 /\ phase' = "except"
                 /\ logs' = logs
                 /\ verdict' = verdict
       /\ \A outcome \in Outcomes \ {"ok"} :
             (RunEval(outcome) \/ RunFill(outcome) \/ RunWaitForSelector(outcome)) =>
                 /\ phase' = "try"
                 /\ ip' = ip + 1
                 /\ logs' = logs /\ categories' = categories
       /\ phase = "except" =>
             /\ verdict' = "ERROR"
             /\ phase' = "finally"
             /\ logs = <<>> /\ logs' = <<>>
       /\ phase' \in {"done", "raised"} =>
             /\ verdict' \in Reported \cup {"ERROR"}
             /\ verdict' = "ERROR" =>
                   (logs' = <<>> /\ ip' < Len(Program(script)))
             /\ verdict' \in Reported => ip' = Len(Program(script))]_vars

\* a run ended in TEST ERROR at its title read, the console events received
\* until then never collected
C13_Witness ==
    /\ phase = "done"
    /\ verdict = "ERROR"
    /\ Program(script)[ip] = "get_title"
    /\ driver._console_logs # <<>>
    /\ logs = <<>>

\* the error-kind entries of the collected logs, and a ConsoleDiagnostics
\* that was fed nothing else
ErrorEntries == SelectSeq(logs, LAMBDA l : FirstMatch(l) = "errors")
ErrorsOnly == [logs |-> ErrorEntries,
               categories |-> [EmptyCategories EXCEPT !.errors = ErrorEntries]]

\* C18: the verdict of a run is the verdict of the run with the same
\* error-kind logs, the same observations and no other log: the warning,
\* info, debug, network and other-kind logs do not move it.
C18_VerdictIgnoresNonErrorLogs ==
    verdict \in Reported =>
        verdict = Verdict(script, ErrorsOnly, analysis[1])

\* test-landing passed with a warning among its collected logs
C18_Witness ==
    /\ script = "landing"
    /\ verdict = "PASSED"
    /\ \E i \in 1..Len(logs) : FirstMatch(logs[i]) = "warnings"
    /\ has_warnings(cd)

\* C19 as stated: a run whose verdict is not passed ends with an exit status
\* different from the 0 of a passed run.
C19_ExitStatusFollowsVerdict ==
    (script \in Scripts /\ ExitStatus # None /\ verdict # "PASSED") =>
        ExitStatus # Some(0)

----------------------------------------------------------------------------
(* A BrowserDriver under calls made in any order, in any of its states *)

\* most screenshots taken
MaxShots == 2

\* readings of datetime.now(), cut to the millisecond: the local wall clock,
\* which nothing forces to differ between two reads (it is stepped back by a
\* time adjustment and at the end of daylight saving time)
Readings == {0, 1}

\* no call was made yet
NoCall == [op |-> "__init__", outcome |-> "none", result |-> None, raised |-> ""]

\* the call op, made with the library answering outcome, ended as r
CallOf(op, outcome, r) ==
    [op |-> op, outcome |-> outcome, result |-> r.result, raised |-> r.raised]

DrvIdle ==
    /\ events = <<>>
    /\ called = NoCall
    /\ shots = EmptyDict

\* the number of screenshots taken
RECURSIVE TotalShots(_)
TotalShots(d) ==
    IF DOMAIN d = {} THEN 0
    ELSE LET k == CHOOSE x \in DOMAIN d : TRUE IN
         d[k] + TotalShots([x \in DOMAIN d \ {k} |-> d[x]])

\* a call on the driver that neither reads the clock nor touches the log
DrvCall(op, outcome, r) ==
    /\ driver' = r.self
    /\ called' = CallOf(op, outcome, r)
    /\ UNCHANGED <<events, shots>>
    /\ UNCHANGED <<script, phase, ip, nav_result, analysis, verdict>>
    /\ UNCHANGED <<agVars, ssVars, clVars, cdVars, pmVars>>

DrvInit(failAt) == DrvCall("init", failAt, init(driver, failAt))

DrvNavigate(outcome) == DrvCall("navigate", outcome, navigate(driver, outcome))

DrvClick(outcome) == DrvCall("click", outcome, click(driver, outcome))

DrvFill(outcome) == DrvCall("fill", outcome, fill(driver, outcome))

DrvWaitForSelector(outcome) ==
    DrvCall("wait_for_selector", outcome, wait_for_selector(driver, outcome))

DrvConsoleLogs == DrvCall("console_logs", "ok", console_logs(driver))

DrvClose(failAt) == DrvCall("close", failAt, close(driver, failAt))

\* screenshot(): the path returned names a file written
DrvScreenshot(outcome, clock) ==
    /\ TotalShots(shots) < MaxShots
    /\ LET r == screenshot(driver, outcome, clock) IN
       /\ driver' = r.self
       /\ called' = CallOf("screenshot", outcome, r)
       /\ shots' = IF r.raised = ""
                   THEN DictSet(shots, r.result[1],
                                IF r.result[1] \in DOMAIN shots
                                THEN shots[r.result[1]] + 1 ELSE 1)
                   ELSE shots
    /\ UNCHANGED events
    /\ UNCHANGED <<script, phase, ip, nav_result, analysis, verdict>>
    /\ UNCHANGED <<agVars, ssVars, clVars, cdVars, pmVars>>

DrvClearConsoleLogs ==
    /\ LET r == clear_console_logs(driver) IN
       /\ driver' = r.self
       /\ called' = CallOf("clear_console_logs", "ok", r)
    /\ events' = <<>>
    /\ UNCHANGED shots
    /\ UNCHANGED <<script, phase, ip, nav_result, analysis, verdict>>
    /\ UNCHANGED <<agVars, ssVars, clVars, cdVars, pmVars>>

\* the page writes msg to its console: the handler registered by init runs
DrvConsole(msg) ==
    /\ driver.page # NoObject
    /\ Len(driver._console_logs) < MaxEvents
    /\ driver' = _handle_console(driver, msg)
    /\ events' = Append(events, [kind |-> "console", type |-> msg.type, text |-> msg.text])
    /\ UNCHANGED <<called, shots>>
    /\ UNCHANGED <<script, phase, ip, nav_result, analysis, verdict>>
    /\ UNCHANGED <<agVars, ssVars, clVars, cdVars, pmVars>>

\* a script of the page throws error
DrvPageError(error) ==
    /\ driver.page # NoObject
    /\ Len(driver._console_logs) < MaxEvents
    /\ driver' = _handle_page_error(driver, error)
    /\ events' = Append(events, [kind |-> "pageerror", type |-> <<>>, text |-> error])
    /\ UNCHANGED <<called, shots>>
    /\ UNCHANGED <<script, phase, ip, nav_result, analysis, verdict>>
    /\ UNCHANGED <<agVars, ssVars, clVars, cdVars, pmVars>>

\* the console messages of the page under these calls
DriverMessages == {m \in ConsoleMessages : m.type # TypeLogMsg}

\* console messages of every type the claims name, with a text that holds no
\* tag and with one that holds "[ERROR]"
EntryMessages ==
    {[type |-> t, text |-> x] :
        t \in {TypeLogMsg, TypeInfoMsg, TypeDebugMsg, TypeWarningMsg},
        x \in {TextMockReady, TextExampleError}}
    \cup {[type |-> TypeErrorMsg, text |-> StrippedExampleError]}

\* diagnostics.add_logs(driver.console_logs()), made once as in the scripts
DrvCollect ==
    /\ logs = <<>>
    /\ driver._console_logs # <<>>
    /\ logs' = add_logs(cd, console_logs(driver).result).logs
    /\ categories' = add_logs(cd, console_logs(driver).result).categories
    /\ UNCHANGED cleared
    /\ UNCHANGED <<driver, events, called, shots>>
    /\ UNCHANGED <<script, phase, ip, nav_result, analysis, verdict>>
    /\ UNCHANGED <<agVars, ssVars, clVars, pmVars>>

----------------------------------------------------------------------------
(* Claims about the test scripts and the driver *)

\* the collected logs hold an error-kind entry
HasErrorEntry == \E i \in 1..Len(logs) : FirstMatch(logs[i]) = "errors"

C10_FailedNavigationLogged ==
    (nav_result = Some(FALSE) /\ verdict \in Reported) => has_errors(cd)

\* C10 amended: navigate on an initialised driver returns False when the
\* navigation fails or times out, does not raise, and the run goes on with its
\* next call; it adds nothing to the console log.
C10_FailedNavigationReturnsFalse ==
    [][\A outcome \in Outcomes \ {"ok"} :
          (phase = "try" /\ Stmt = "navigate" /\ driver.page # NoObject
              /\ RunNavigate(outcome)) =>
              /\ nav_result' = Some(FALSE)
              /\ phase' = "try" /\ ip' = ip + 1
              /\ driver' = driver]_vars

\* a run whose navigation failed went on to its verdict with an empty console
\* log
C10_Witness ==
    /\ nav_result = Some(FALSE)
    /\ verdict \in Reported
    /\ driver._console_logs = <<>>
    /\ logs = <<>>

----------------------------------------------------------------------------
(* Claims about the BrowserDriver under any calls *)

\* the calls documented to return a success boolean
BoolOps == {"navigate", "click", "fill", "wait_for_selector"}

\* C11 as stated: navigate, click, fill and wait_for_selector return True or
\* False and do not raise, in every state of the driver.
C11_BooleanInEveryState ==
    called.op \in BoolOps =>
        /\ called.raised = ""
        /\ called.result \in {Some(TRUE), Some(FALSE)}

\* C11 amended: on a driver that holds a page, navigate, click, fill and
\* wait_for_selector return True when the library call succeeds and False
\* when it fails, and do not raise; on a driver without a page (never
\* initialised, or closed) they raise RuntimeError. In both cases the driver
\* is left as it was.
C11_BooleanWhenPageElseRuntimeError ==
    [][\A outcome \in Outcomes :
          (/\ called'.op \in BoolOps
           /\ \/ DrvNavigate(outcome)
              \/ DrvClick(outcome)
              \/ DrvFill(outcome)
              \/ DrvWaitForSelector(outcome)) =>
          /\ driver' = driver
          /\ IF driver.page = NoObject
             THEN called'.raised = "RuntimeError" /\ called'.result = None
             ELSE /\ called'.raised = ""
                  /\ called'.result = Some(called'.outcome = "ok")]_vars

\* click raised on a driver that had been initialised and was closed, and
\* fill returned False on one that holds a page
C11_Witness ==
    \/ /\ called.op = "click"
       /\ called.raised = "RuntimeError"
       /\ driver.page = NoObject
       /\ driver._console_logs # <<>>
    \/ /\ called.op = "fill"
       /\ called.result = Some(FALSE)
       /\ driver.initialized

\* the entry of an event: "[" + upper-case type + "] " + text for a console
\* message, "[PAGE_ERROR] " + text for a page error
Tagged(e) ==
    IF e.kind = "console"
    THEN <<"[">> \o upper(e.type) \o <<"]", " ">> \o e.text
    ELSE <<"[", "P", "A", "G", "E", "_", "E", "R", "R", "O", "R", "]", " ">> \o e.text

TaggedAll(es) == [i \in 1..Len(es) |-> Tagged(es[i])]

\* C12: the console log is the sequence of events received since the last
\* clear_console_logs(), one tagged entry per event, in arrival order;
\* console_logs() returns that sequence and changes nothing; an error message
\* "TypeError: x is undefined" is the entry "[ERROR] TypeError: x is undefined".
C12_ConsoleLogsAreTaggedEvents ==
    [][/\ driver'._console_logs = TaggedAll(events')
       /\ \A i \in 1..Len(events') :
             (events'[i].kind = "console" /\ events'[i].type = TypeErrorMsg
                 /\ events'[i].text = StrippedExampleError) =>
                driver'._console_logs[i] = TextExampleError
       /\ (called'.op = "console_logs" /\ DrvConsoleLogs) =>
             /\ called'.result = TaggedAll(events)
             /\ events' = events
             /\ driver' = driver]_vars

\* after a clear_console_logs, a page error and then an error message arrived
C12_Witness ==
    /\ called.op = "clear_console_logs"
    /\ Len(events) = MaxEvents
    /\ events[1].kind = "pageerror"
    /\ events[Len(events)].kind = "console"
    /\ driver._console_logs[Len(events)] = TextExampleError

\* C17 as stated: no two screenshot() calls made without a filename return
\* the same path, so no screenshot overwrites an earlier one.
C17_ScreenshotPathsDiffer ==
    \A path \in DOMAIN shots : shots[path] <= 1

----------------------------------------------------------------------------
(* The session state: metric history, issue tracker, trend analyzer *)

\* no process run has touched the session state
SsIdle ==
    /\ history = <<>>
    /\ recorded = 0
    /\ issues = <<>>
    /\ store = [historical_issues |-> <<>>, performance_history |-> <<>>]
    /\ tracked = <<>>
    /\ loaded = FALSE
    /\ trend = None

\* the retention window of the metric history
RetentionWindow == 50

\* most datapoints recorded
MaxRecorded == 60

\* the session state of the running process as one value
session == [historical_issues |-> issues, performance_history |-> history]

\* the last n elements of a list: list[-n:]
LastN(list, n) ==
    IF Len(list) <= n THEN list ELSE SubSeq(list, Len(list) - n + 1, Len(list))

\* recording a datapoint with a cap that drops the newest point on overflow
record_datapoint_keep_oldest(hist, point) ==
    IF Len(hist) < RetentionWindow THEN Append(hist, point) ELSE hist

\* recording a datapoint: appended, and the history cut to its most recent
\* RetentionWindow points
record_datapoint(hist, point) ==
    LastN(Append(hist, point), RetentionWindow)

\* a run starts: the session state is loaded from the store
RunStart ==
    /\ ~loaded
    /\ loaded' = TRUE
    /\ issues' = store.historical_issues
    /\ history' = store.performance_history
    /\ UNCHANGED <<recorded, store, tracked, trend>>
    /\ UNCHANGED <<agVars, drvVars, runVars, clVars, cdVars, pmVars>>

\* the run ends: the session state is saved to the store
RunEnd ==
    /\ loaded
    /\ loaded' = FALSE
    /\ store' = session
    /\ UNCHANGED <<history, recorded, issues, tracked, trend>>
    /\ UNCHANGED <<agVars, drvVars, runVars, clVars, cdVars, pmVars>>

\* the running process records the datapoint of a page load; the timestamp
\* is the number of the datapoint
RecordDatapoint(value) ==
    /\ loaded
    /\ recorded < MaxRecorded
    /\ recorded' = recorded + 1
    /\ history' = record_datapoint(history,
                      [timestamp |-> recorded + 1, metrics |-> [load_time |-> value]])
    /\ UNCHANGED <<issues, store, tracked, loaded, trend>>
    /\ UNCHANGED <<agVars, drvVars, runVars, clVars, cdVars, pmVars>>

\* most track calls made
MaxTracks == 3

\* issue texts and categories handed to the tracker
IssueTexts == {"CORS error", "Slow request"}
IssueCategories == {"security", "performance"}

\* hash(text): a digest of the text alone, the same in every process run;
\* the texts of the model have different digests
Fingerprint(text) ==
    CASE text = "CORS error" -> "9f2c"
      [] text = "Slow request" -> "41ab"

\* the positions of the records with fingerprint fp
Matching(records, fp) == {i \in 1..Len(records) : records[i].fingerprint = fp}

\* track that looks the record up by fingerprint and category
track_match_category(records, text, category, stamp) ==
    LET fp == Fingerprint(text)
        found == {i \in Matching(records, fp) : records[i].category = category} IN
    IF found # {}
    THEN LET i == CHOOSE j \in found : \A k \in found : j <= k IN
         [records EXCEPT ![i].count = @ + 1, ![i].lastSeen = stamp]
    ELSE Append(records, [fingerprint |-> fp, text |-> text, category |-> category,
                          firstSeen |-> stamp, lastSeen |-> stamp, count |-> 1])

\* track(text, category): the record with the text's fingerprint gets its
\* count incremented and its lastSeen updated; without one, a record with
\* count 1 is inserted
track(records, text, category, stamp) ==
    LET fp == Fingerprint(text)
        found == Matching(records, fp) IN
    IF found # {}
    THEN LET i == CHOOSE j \in found : \A k \in found : j <= k IN
         [records EXCEPT ![i].count = @ + 1, ![i].lastSeen = stamp]
    ELSE Append(records, [fingerprint |-> fp, text |-> text, category |-> category,
                          firstSeen |-> stamp, lastSeen |-> stamp, count |-> 1])

\* recurring(minCount): the records seen at least minCount times, in the
\* order they were first seen
recurring(records, minCount) ==
    SelectSeq(records, LAMBDA r : r.count >= minCount)

\* the running process tracks an issue; tracked lists the calls made so far
Track(text, category) ==
    /\ loaded
    /\ Len(tracked) < MaxTracks
    /\ issues' = track(issues, text, category, Len(tracked) + 1)
    /\ tracked' = Append(tracked, [text |-> text, category |-> category])
    /\ UNCHANGED <<history, recorded, store, loaded, trend>>
    /\ UNCHANGED <<agVars, drvVars, runVars, clVars, cdVars, pmVars>>

\* most datapoints of a history handed to trends
MaxPoints == 11

\* the points of the recent window, and of the older window before it
TrendWindow == 5

\* the history length below which trends gives no verdict
MinHistory == 10

\* page load times recorded
TrendValues == {100, 120}

\* the values of a metric over the points of a window
ValuesOf(points, name) == [i \in 1..Len(points) |-> points[i].metrics[name]]

\* the label of a metric from its recent and its older window. Both windows
\* hold TrendWindow values, so the means sum/TrendWindow are compared by
\* their sums: recent_mean < 0.9 * older_mean iff 10 * recent_sum < 9 * older_sum,
\* recent_mean > 1.1 * older_mean iff 10 * recent_sum > 11 * older_sum
TrendLabel(recent, older) ==
    IF 10 * SumSeq(recent) < 9 * SumSeq(older) THEN "improving"
    ELSE IF 10 * SumSeq(recent) > 11 * SumSeq(older) THEN "degrading"
    ELSE "stable"

\* trends whose thresholds include the bound itself
trends_inclusive_threshold(hist) ==
    IF Len(hist) < MinHistory THEN EmptyDict
    ELSE LET recent == SubSeq(hist, Len(hist) - TrendWindow + 1, Len(hist))
             older == SubSeq(hist, Len(hist) - 2 * TrendWindow + 1,
                             Len(hist) - TrendWindow) IN
         [name \in DOMAIN hist[Len(hist)].metrics |->
             LET r == SumSeq(ValuesOf(recent, name))
                 o == SumSeq(ValuesOf(older, name)) IN
             IF 10 * r <= 9 * o THEN "improving"
             ELSE IF 10 * r >= 11 * o THEN "degrading"
             ELSE "stable"]

\* trends(history): the empty mapping below MinHistory points, else a label
\* per metric from the most recent TrendWindow points and the TrendWindow
\* points before them
trends(hist) ==
    IF Len(hist) < MinHistory THEN EmptyDict
    ELSE LET recent == SubSeq(hist, Len(hist) - TrendWindow + 1, Len(hist))
             older == SubSeq(hist, Len(hist) - 2 * TrendWindow + 1,
                             Len(hist) - TrendWindow) IN
         [name \in DOMAIN hist[Len(hist)].metrics |->
             TrendLabel(ValuesOf(recent, name), ValuesOf(older, name))]

\* the running process asks for the trends of its history
Trends ==
    /\ loaded
    /\ trend = None
    /\ trend' = Some(trends(history))
    /\ UNCHANGED <<history, recorded, issues, store, tracked, loaded>>
    /\ UNCHANGED <<agVars, drvVars, runVars, clVars, cdVars, pmVars>>

\* a datapoint recorded before the trends are asked for
RecordTrendPoint(value) ==
    /\ trend = None
    /\ recorded < MaxPoints
    /\ RecordDatapoint(value)

----------------------------------------------------------------------------
(* Claims about the session state *)

\* the smaller of two numbers
Min(a, b) == IF a < b THEN a ELSE b

CallsWithText(text) == {i \in 1..Len(tracked) : tracked[i].text = text}
CallsWithPair(text, category) ==
    {i \in CallsWithText(text) : tracked[i].category = category}

FromEnd(k) == history[Len(history) - k].metrics.load_time

\* five times the mean of the most recent 5 points, and of the 5 before them
RecentSum == FromEnd(0) + FromEnd(1) + FromEnd(2) + FromEnd(3) + FromEnd(4)
OlderSum == FromEnd(5) + FromEnd(6) + FromEnd(7) + FromEnd(8) + FromEnd(9)

\* a window of five equal values
Five(v) == <<v, v, v, v, v>>

\* C16: trends(history) is the empty mapping when history has fewer than 10
\* points; with at least 10 it labels the metric improving iff the mean of the
\* most recent 5 points is below 0.9 times the mean of the 5 points before
\* them, degrading iff it is above 1.1 times that mean, and stable otherwise
\* (100 against 120 is improving, 130 against 100 degrading, 105 against 100
\* stable).
C16_TrendsFromLastTenPoints ==
    /\ trend # None =>
          IF Len(history) < 10 THEN trend[1] = EmptyDict
          ELSE /\ DOMAIN trend[1] = {"load_time"}
               /\ trend[1].load_time \in {"improving", "degrading", "stable"}
               /\ trend[1].load_time = "improving" <=> 10 * RecentSum < 9 * OlderSum
               /\ trend[1].load_time = "degrading" <=> 10 * RecentSum > 11 * OlderSum
    /\ TrendLabel(Five(100), Five(120)) = "improving"
    /\ TrendLabel(Five(130), Five(100)) = "degrading"
    /\ TrendLabel(Five(105), Five(100)) = "stable"

\* trends was asked with more than 10 points, the recent mean 108 being
\* exactly 0.9 times the older mean 120: stable
C16_Witness ==
    /\ trend # None
    /\ Len(history) > 10
    /\ RecentSum = 540
    /\ OlderSum = 600
    /\ history[1].metrics.load_time = 100
    /\ trend[1].load_time = "stable"

----------------------------------------------------------------------------
(* ClaudeAgent (core/agent.py) *)

\* most execute_task calls made
MaxTasks == 2

TaskIds == 1..MaxTasks

\* an execute_task call not made yet
IdleTask == [pc |-> "idle", task_record |-> None, raised |-> ""]

\* no init() or initialize() call is under way, none was made
NoInits == [c \in {} |-> "none"]

\* no wait_for_condition call was made
NoWait == [pc |-> "idle"]

\* nothing was created since the driver was constructed or closed
NoneLaunched == [playwright |-> 0, browser |-> 0, context |-> 0, page |-> 0, handlers |-> 0]

\* ClaudeAgent.__init__ without a driver, and nothing called
AgIdle ==
    /\ has_driver = FALSE
    /\ task_history = <<>>
    /\ tasks = [t \in TaskIds |-> IdleTask]
    /\ inits = NoInits
    /\ launched = NoneLaunched
    /\ wfc = NoWait

\* ClaudeAgent.__init__(driver) or ClaudeAgent.__init__()
AgInit ==
    /\ has_driver \in BOOLEAN
    /\ task_history = <<>>
    /\ tasks = [t \in TaskIds |-> IdleTask]
    /\ inits = NoInits
    /\ launched = NoneLaunched
    /\ wfc = NoWait

\* execute_task: the task_record built before the try block
PendingRecord(t) == [task |-> t, status |-> "pending"]

\* execute_task: the try block went through
CompletedRecord(t, result) == [task |-> t, status |-> "completed", result |-> result]

\* execute_task: the except clause caught an Exception
FailedRecord(t, error) == [task |-> t, status |-> "failed", error |-> error]

\* execute_task(task, context) up to its return, or up to the await at which
\* it suspends: _process_task awaits driver.navigate when the agent has a
\* driver and the context a url, and navigate awaits page.goto when the driver
\* has a page
ExecuteTask(t, with_url) ==
    /\ tasks[t].pc = "idle"
    /\ IF has_driver /\ with_url
       THEN IF navigate(driver, "ok").raised # ""
            THEN /\ task_history' =
                       Append(task_history, FailedRecord(t, navigate(driver, "ok").raised))
                 /\ tasks' = [tasks EXCEPT ![t] =
                       [pc |-> "returned",
                        task_record |-> Some(FailedRecord(t, navigate(driver, "ok").raised)),
                        raised |-> ""]]
            ELSE /\ task_history' = task_history
                 /\ tasks' = [tasks EXCEPT ![t] =
                       [pc |-> "processing", task_record |-> Some(PendingRecord(t)),
                        raised |-> ""]]
       ELSE /\ task_history' = Append(task_history, CompletedRecord(t, "processed"))
            /\ tasks' = [tasks EXCEPT ![t] =
                  [pc |-> "returned", task_record |-> Some(CompletedRecord(t, "processed")),
                   raised |-> ""]]
    /\ UNCHANGED <<has_driver, inits, launched, wfc>>
    /\ UNCHANGED <<drvVars, ssVars, runVars, clVars, cdVars, pmVars>>

\* page.goto is over: navigate returns True or False, _process_task returns
\* its result whatever navigate returned, the record is completed and appended
ResumeTask(t, outcome) ==
    /\ tasks[t].pc = "processing"
    /\ task_history' = Append(task_history, CompletedRecord(t, "navigated"))
    /\ tasks' = [tasks EXCEPT ![t] =
          [pc |-> "returned", task_record |-> Some(CompletedRecord(t, "navigated")),
           raised |-> ""]]
    /\ UNCHANGED <<has_driver, inits, launched, wfc>>
    /\ UNCHANGED <<drvVars, ssVars, runVars, clVars, cdVars, pmVars>>

\* the asyncio task running execute_task is cancelled while it is suspended:
\* CancelledError, a BaseException, is raised at the await; no `except
\* Exception` clause catches it, the finally block appends the task_record
\* as it is, and the error leaves execute_task
CancelTask(t) ==
    /\ tasks[t].pc = "processing"
    /\ task_history' = Append(task_history, tasks[t].task_record[1])
    /\ tasks' = [tasks EXCEPT ![t] =
          [pc |-> "raised", task_record |-> tasks[t].task_record,
           raised |-> "CancelledError"]]
    /\ UNCHANGED <<has_driver, inits, launched, wfc>>
    /\ UNCHANGED <<drvVars, ssVars, runVars, clVars, cdVars, pmVars>>

\* ClaudeAgent.clear_history
ClearHistory ==
    /\ task_history' = <<>>
    /\ UNCHANGED <<has_driver, tasks, inits, launched, wfc>>
    /\ UNCHANGED <<drvVars, ssVars, runVars, clVars, cdVars, pmVars>>

\* ClaudeAgent.wait_for_condition (core/agent.py).  elapsed starts as the int
\* 0 and grows by `elapsed += interval`; with a float interval that is an
\* IEEE-754 binary64 addition, which rounds its result to 53 significant
\* bits, ties to even.  Numbers are kept as bit vectors: bit i of a vector
\* weighs 2^(i - 1 - FracBits).
Width == 64

FracBits == 60

Significand == 53

MaxTimeout == 2

Timeouts == (0 - 1)..MaxTimeout

\* the intervals tried: the float literals 0.1 and 0.5 and the int 1
Intervals == {"0.1", "0.5", "1"}

BitsOf(ones) == [i \in 1..Width |-> IF i \in ones THEN 1 ELSE 0]

\* the binary64 nearest to 0.1 is 0x1999999999999A * 2^-56
TenthBits ==
    BitsOf({6, 8, 9, 12, 13, 16, 17, 20, 21, 24, 25, 28, 29, 32, 33, 36, 37,
            40, 41, 44, 45, 48, 49, 52, 53, 56, 57})

IntervalBits(interval) ==
    CASE interval = "0.1" -> TenthBits
      [] interval = "0.5" -> BitsOf({FracBits})
      [] interval = "1" -> BitsOf({FracBits + 1})

\* the int n >= 0 as a bit vector
FromInt(n) ==
    [i \in 1..Width |-> IF i > FracBits THEN (n \div 2 ^ (i - FracBits - 1)) % 2 ELSE 0]

\* the carry into bit i of a + b
Carry(a, b, i) ==
    IF \E j \in 1..(i - 1) :
          /\ a[j] = 1 /\ b[j] = 1
          /\ \A k \in (j + 1)..(i - 1) : a[k] + b[k] >= 1
    THEN 1 ELSE 0

\* a + b exactly
BitsAdd(a, b) == [i \in 1..Width |-> (a[i] + b[i] + Carry(a, b, i)) % 2]

\* the position of the leading one of s, 0 when s is zero
Top(s) ==
    IF \A i \in 1..Width : s[i] = 0 THEN 0
    ELSE CHOOSE i \in 1..Width : s[i] = 1 /\ \A j \in (i + 1)..Width : s[j] = 0

\* s cut after its Significand leading bits, the rest dropped
Truncate(s) ==
    LET d == Top(s) - Significand IN
    [i \in 1..Width |-> IF i <= d THEN 0 ELSE s[i]]

\* s rounded to Significand significant bits, ties to even
RoundToEven(s) ==
    LET d == Top(s) - Significand IN
    IF d <= 0 THEN s
    ELSE IF /\ s[d] = 1
            /\ \/ s[d + 1] = 1
               \/ \E i \in 1..(d - 1) : s[i] = 1
         THEN BitsAdd(Truncate(s), BitsOf({d + 1}))
         ELSE Truncate(s)

\* elapsed += interval
float_add(a, b) == RoundToEven(BitsAdd(a, b))

\* elapsed < timeout, timeout an int: Python compares the two exactly
elapsed_less(elapsed, timeout) ==
    /\ timeout > 0
    /\ LET limit == FromInt(timeout) IN
       \E i \in 1..Width :
          /\ elapsed[i] < limit[i]
          /\ \A j \in (i + 1)..Width : elapsed[j] = limit[j]

\* the while test of wait_for_condition and what follows it up to the next
\* await: the loop is left with `return False`, or driver.eval is called,
\* which raises RuntimeError at once on a driver without a page and
\* otherwise suspends at page.evaluate
WaitLoop(w) ==
    IF elapsed_less(w.elapsed, w.timeout)
    THEN IF eval(driver, "ok", None).raised # ""
         THEN [w EXCEPT !.pc = "raised", !.evals = @ + 1]
         ELSE [w EXCEPT !.pc = "evaluating", !.evals = @ + 1]
    ELSE [w EXCEPT !.pc = "returned", !.result = Some(FALSE)]

\* wait_for_condition(condition, timeout, interval) up to its first await
\* or its return
WaitForCondition(timeout, interval) ==
    /\ wfc.pc = "idle"
    /\ wfc' = IF ~has_driver
              THEN [pc |-> "returned", timeout |-> timeout, interval |-> interval,
                    elapsed |-> FromInt(0), evals |-> 0, truthy |-> FALSE,
                    result |-> Some(FALSE)]
              ELSE WaitLoop([pc |-> "loop", timeout |-> timeout, interval |-> interval,
                             elapsed |-> FromInt(0), evals |-> 0, truthy |-> FALSE,
                             result |-> None])
    /\ UNCHANGED <<has_driver, task_history, tasks, inits, launched>>
    /\ UNCHANGED <<drvVars, ssVars, runVars, clVars, cdVars, pmVars>>

\* page.evaluate is over and driver.eval returns the value, or None when the
\* evaluation failed: a truthy result ends the wait with True, any other is
\* followed by asyncio.sleep(interval), elapsed += interval and the while test
WaitPoll(outcome, value) ==
    /\ wfc.pc = "evaluating"
    /\ wfc' = IF eval(driver, outcome, value).result = Some(TRUE)
              THEN [wfc EXCEPT !.pc = "returned", !.truthy = TRUE,
                               !.result = Some(TRUE)]
              ELSE WaitLoop([wfc EXCEPT
                       !.elapsed = float_add(@, IntervalBits(wfc.interval))])
    /\ UNCHANGED <<has_driver, task_history, tasks, inits, launched>>
    /\ UNCHANGED <<drvVars, ssVars, runVars, clVars, cdVars, pmVars>>

\* BrowserDriver.init and ClaudeAgent.initialize as coroutines: a call runs
\* to its next await, where other calls on the same driver may run
MaxCalls == 2

CallIds == 1..MaxCalls

\* the next await of init after the one named
NextAwait(pc) ==
    CASE pc = "start" -> "launch"
      [] pc = "launch" -> "new_context"
      [] pc = "new_context" -> "new_page"
      [] pc = "new_page" -> "returned"

InitSuspended(c) == c \in DOMAIN inits /\ inits[c] \in {"start", "launch", "new_context", "new_page"}

\* driver.init(), or agent.initialize() which awaits driver.init() when the
\* agent has a driver that is not initialised: the call returns at once on
\* an initialised driver and otherwise suspends at async_playwright().start()
InitCall(c, via) ==
    /\ c \notin DOMAIN inits
    /\ inits' = [x \in DOMAIN inits \cup {c} |->
                    IF x # c THEN inits[x]
                    ELSE IF via = "initialize" /\ ~has_driver THEN "returned"
                    ELSE IF driver.initialized THEN "returned"
                    ELSE "start"]
    /\ UNCHANGED <<driver, launched>>
    /\ UNCHANGED <<has_driver, task_history, tasks, wfc>>
    /\ UNCHANGED <<script, phase, ip, nav_result, analysis, verdict>>
    /\ UNCHANGED <<drvVars, ssVars, clVars, cdVars, pmVars>>

\* the await at which call c is suspended completes: its result is assigned
\* to the driver's attribute and the call runs to its next await; after
\* new_page the handlers are registered on the page, the screenshot
\* directory is made and initialized is set
InitStep(c, makedirs_ok) ==
    /\ InitSuspended(c)
    /\ driver' =
          CASE inits[c] = "start" -> [driver EXCEPT !.playwright = "Playwright"]
            [] inits[c] = "launch" -> [driver EXCEPT !.browser = "Browser"]
            [] inits[c] = "new_context" -> [driver EXCEPT !.context = "Context"]
            [] inits[c] = "new_page" ->
                 [driver EXCEPT !.page = "Page", !.initialized = makedirs_ok \/ @]
    /\ launched' =
          CASE inits[c] = "start" -> [launched EXCEPT !.playwright = @ + 1]
            [] inits[c] = "launch" -> [launched EXCEPT !.browser = @ + 1]
            [] inits[c] = "new_context" -> [launched EXCEPT !.context = @ + 1]
            [] inits[c] = "new_page" ->
                 [launched EXCEPT !.page = @ + 1, !.handlers = @ + 1]
    /\ inits' = [inits EXCEPT ![c] =
                    IF inits[c] = "new_page" /\ ~makedirs_ok THEN "raised"
                    ELSE NextAwait(inits[c])]
    /\ UNCHANGED <<has_driver, task_history, tasks, wfc>>
    /\ UNCHANGED <<script, phase, ip, nav_result, analysis, verdict>>
    /\ UNCHANGED <<drvVars, ssVars, clVars, cdVars, pmVars>>

\* the await at which call c is suspended raises: the error leaves init,
\* what the call assigned before stays on the driver
InitFail(c) ==
    /\ InitSuspended(c)
    /\ inits' = [inits EXCEPT ![c] = "raised"]
    /\ UNCHANGED <<driver, launched>>
    /\ UNCHANGED <<has_driver, task_history, tasks, wfc>>
    /\ UNCHANGED <<script, phase, ip, nav_result, analysis, verdict>>
    /\ UNCHANGED <<drvVars, ssVars, clVars, cdVars, pmVars>>

\* driver.close() once every init call is over
InitClose ==
    /\ inits # NoInits
    /\ \A c \in DOMAIN inits : ~InitSuspended(c)
    /\ driver' = close(driver, "none").self
    /\ inits' = NoInits
    /\ launched' = NoneLaunched
    /\ UNCHANGED <<has_driver, task_history, tasks, wfc>>
    /\ UNCHANGED <<script, phase, ip, nav_result, analysis, verdict>>
    /\ UNCHANGED <<drvVars, ssVars, clVars, cdVars, pmVars>>

----------------------------------------------------------------------------
(* Claims about ClaudeAgent *)

\* C21 as stated: task_history never holds a record whose status is pending,
\* every record being completed with a result or failed with the error text,
\* and no execute_task call ends by raising.
C21_NoPendingRecord ==
    /\ \A i \in 1..Len(task_history) :
          task_history[i].status \in {"completed", "failed"}
    /\ \A t \in TaskIds : tasks[t].pc # "raised"

\* ceil(timeout / interval) for timeout > 0: the binary64 0.1 is a little
\* above one tenth, by less than one part in 10^16
CeilQuotient(timeout, interval) ==
    CASE interval = "0.1" -> 10 * timeout
      [] interval = "0.5" -> 2 * timeout
      [] interval = "1" -> timeout

\* C22 as stated: wait_for_condition returns True iff some evaluation of the
\* condition was truthy and False on timeout or without a driver; it makes at
\* most ceil(timeout / interval) evaluations, at least one when timeout > 0
\* and the agent has a driver, and none when timeout <= 0.
C22_AtMostCeilEvaluations ==
    wfc.pc # "idle" =>
       /\ wfc.pc = "returned" => (wfc.result = Some(TRUE) <=> wfc.truthy)
       /\ wfc.pc = "returned" /\ ~has_driver => wfc.result = Some(FALSE)
       /\ wfc.timeout > 0 => wfc.evals <= CeilQuotient(wfc.timeout, wfc.interval)
       /\ wfc.timeout > 0 /\ has_driver => wfc.evals >= 1
       /\ wfc.timeout <= 0 => wfc.evals = 0

\* C23 as stated: between two close() calls a BrowserDriver creates at most
\* one playwright instance, one browser, one context and one page, and
\* registers the console handlers on one page only, whatever the
\* interleaving of init() and initialize() calls.
C23_AtMostOneBrowser ==
    /\ launched.playwright <= 1
    /\ launched.browser <= 1
    /\ launched.context <= 1
    /\ launched.page <= 1
    /\ launched.handlers <= 1

----------------------------------------------------------------------------
(* Claims about the end of a test-script run *)

\* page, context, browser and playwright are None and initialized is False
Closed(self) ==
    /\ self.page = NoObject
    /\ self.context = NoObject
    /\ self.browser = NoObject
    /\ self.playwright = NoObject
    /\ ~self.initialized

\* every state a driver can be in: never initialised, partly initialised,
\* initialised, closed, and any other setting of its five attributes
DriverStates ==
    {[driver EXCEPT !.playwright = a, !.browser = b, !.context = c, !.page = p,
                    !.initialized = i] :
        a \in {NoObject, "Playwright"}, b \in {NoObject, "Browser"},
        c \in {NoObject, "Context"}, p \in {NoObject, "Page"}, i \in BOOLEAN}

\* C24: every test-script run eventually reaches its finally block and
\* calls driver.close(), whether the test body completed or a step raised;
\* when close() returns, in the run and from any driver state, page,
\* context, browser and playwright are None and initialized is False.
C24_RunEndsWithClosedDriver ==
    /\ <>(phase \in {"done", "raised"})
    /\ [](phase = "done" => Closed(driver))
    /\ [](\A d \in DriverStates, failAt \in CloseFailures \cup {"none"} :
            close(d, failAt).raised = "" => Closed(close(d, failAt).self))

\* a run whose init failed after it had launched the browser reached its
\* end through the except clause and close()
C24_Witness ==
    /\ phase = "done"
    /\ verdict = "ERROR"
    /\ Program(script)[ip] = "init"
    /\ Closed(driver)

----------------------------------------------------------------------------
(* Claims about the entries of the driver as ConsoleDiagnostics sees them *)

\* ConsoleDiagnostics places the entry in its errors category
InErrors(log) == _categorize_log(EmptyCategories, log)["errors"] # <<>>

\* the event is a console message of type error, or a page error
ErrorEvent(e) == e.kind = "pageerror" \/ e.type = TypeErrorMsg

\* the text of the event holds an error tag, in any case of letters
TextHoldsErrorTag(e) ==
    \/ Contains(lower(e.text), TagError)
    \/ Contains(lower(e.text), TagPageError)

\* C25 as stated: the entry of a console message of type log, info, debug
\* or warning is never placed in the errors category, whatever its text, and
\* has_errors() is true only if an error-type message or a page error came.
C25_KindFromTypeAlone ==
    /\ categories["errors"] = SelectSeq(logs, InErrors)
    /\ \A i \in 1..Len(logs) : ~ErrorEvent(events[i]) => ~InErrors(logs[i])
    /\ has_errors(cd) => \E i \in 1..Len(logs) : ErrorEvent(events[i])

\* C25: an entry is placed in the errors category exactly when its event is
\* an error-type console message or a page error, or when the text of the
\* message itself holds "[error]" or "[page_error]" in any case of letters;
\* has_errors() is true exactly when such an entry was collected.
C25_KindFromTagsInEntry ==
    /\ categories["errors"] = SelectSeq(logs, InErrors)
    /\ \A i \in 1..Len(logs) :
          InErrors(logs[i]) <=> (ErrorEvent(events[i]) \/ TextHoldsErrorTag(events[i]))
    /\ has_errors(cd) <=>
          \E i \in 1..Len(logs) : ErrorEvent(events[i]) \/ TextHoldsErrorTag(events[i])

\* a log-type message whose text holds "[ERROR]" was collected next to a page
\* error, and both are in the errors category
C25_Witness ==
    /\ Len(logs) = 2
    /\ events[1].kind = "console" /\ events[1].type = TypeLogMsg
    /\ events[1].text = TextExampleError
    /\ events[2].kind = "pageerror"
    /\ categories["errors"] = logs

----------------------------------------------------------------------------
(* Specifications *)

\* no script runs
RunIdle ==
    /\ script = "none"
    /\ phase = "done"
    /\ ip = 1
    /\ driver = NewDriver
    /\ nav_result = None
    /\ analysis = None
    /\ verdict = "none"

\* the classifier applied once to each input
InitClassify == input \in ClassifyInputs /\ kind = "none" /\ CdInit /\ PmInit /\ RunIdle /\ DrvIdle /\ SsIdle /\ AgIdle

NextClassify == Classify

SpecClassify == InitClassify /\ [][NextClassify]_vars

\* a ConsoleDiagnostics under add_log, add_logs and clear
InitConsole == ClInit /\ CdInit /\ PmInit /\ RunIdle /\ DrvIdle /\ SsIdle /\ AgIdle

NextConsole ==
    \/ \E log \in Texts : AddLog(log)
    \/ \E ls \in Batches : AddLogs(ls)
    \/ Clear

SpecConsole == InitConsole /\ [][NextConsole]_vars

\* a PerformanceMonitor under record_metric, the queries and clear
InitMetrics == ClInit /\ CdInit /\ PmInit /\ RunIdle /\ DrvIdle /\ SsIdle /\ AgIdle

NextMetrics ==
    \/ Tick
    \/ \E name \in MetricNames, value \in Values : RecordMetric(name, value)
    \/ \E name \in MetricNames : GetAverage(name)
    \/ \E name \in MetricNames : GetMin(name)
    \/ \E name \in MetricNames : GetMax(name)
    \/ \E name \in MetricNames : GetLatest(name)
    \/ \E metric_name \in ClearArgs : ClearMetrics(metric_name)

SpecMetrics == InitMetrics /\ [][NextMetrics]_vars

\* one run of one test script, the page writing to its console meanwhile
InitRun == ClInit /\ CdInit /\ PmInit /\ RunInit /\ DrvIdle /\ SsIdle /\ AgIdle

NextRun ==
    \/ \E failAt \in InitFailures \cup {"none"} : RunInitDriver(failAt)
    \/ \E outcome \in Outcomes : RunNavigate(outcome)
    \/ \E outcome \in Outcomes : RunScreenshot(outcome)
    \/ \E outcome \in Outcomes : RunGetTitle(outcome)
    \/ \E outcome \in Outcomes : RunEval(outcome)
    \/ \E outcome \in Outcomes : RunFill(outcome)
    \/ \E outcome \in Outcomes : RunWaitForSelector(outcome)
    \/ \E outcome \in Outcomes, observed \in Observations(script) :
          RunEvalAnalysis(outcome, observed)
    \/ \E outcome \in Outcomes : RunEvalIfCombos(outcome)
    \/ RunCollect
    \/ RunVerdict
    \/ RunExcept
    \/ \E failAt \in CloseFailures \cup {"none"} : RunFinally(failAt)
    \/ \E msg \in ConsoleMessages : ConsoleEvent(msg)
    \/ \E error \in PageErrors : PageErrorEvent(error)

SpecRun == InitRun /\ [][NextRun]_vars

\* a BrowserDriver under any calls, the page writing to its console meanwhile
InitDriver == ClInit /\ CdInit /\ PmInit /\ RunIdle /\ DrvIdle /\ SsIdle /\ AgIdle

NextDriver ==
    \/ \E failAt \in InitFailures \cup {"none"} : DrvInit(failAt)
    \/ \E outcome \in Outcomes : DrvNavigate(outcome)
    \/ \E outcome \in Outcomes : DrvClick(outcome)
    \/ \E outcome \in Outcomes : DrvFill(outcome)
    \/ \E outcome \in Outcomes : DrvWaitForSelector(outcome)
    \/ \E outcome \in Outcomes, clock \in Readings : DrvScreenshot(outcome, clock)
    \/ DrvConsoleLogs
    \/ DrvClearConsoleLogs
    \/ \E failAt \in CloseFailures \cup {"none"} : DrvClose(failAt)
    \/ \E msg \in DriverMessages : DrvConsole(msg)
    \/ \E error \in PageErrors : DrvPageError(error)

SpecDriver == InitDriver /\ [][NextDriver]_vars

\* the session state without a running process
InitSession == ClInit /\ CdInit /\ PmInit /\ RunIdle /\ DrvIdle /\ SsIdle /\ AgIdle

\* the metric history under datapoints recorded by one process run after the
\* other
NextHistory ==
    \/ RunStart
    \/ RecordDatapoint(100)
    \/ RunEnd

SpecHistory == InitSession /\ [][NextHistory]_vars

\* the issue tracker under track calls made by one process run after the other
NextTracker ==
    \/ RunStart
    \/ \E text \in IssueTexts, category \in IssueCategories : Track(text, category)
    \/ RunEnd

SpecTracker == InitSession /\ [][NextTracker]_vars

\* trends applied once to the history a process run recorded
NextTrends ==
    \/ RunStart
    \/ \E value \in TrendValues : RecordTrendPoint(value)
    \/ Trends

SpecTrends == InitSession /\ [][NextTrends]_vars

\* a ClaudeAgent under execute_task calls that run concurrently, their
\* cancellation and clear_history, its driver initialised at some point
InitAgent == ClInit /\ CdInit /\ PmInit /\ RunIdle /\ DrvIdle /\ SsIdle /\ AgInit

NextAgent ==
    \/ \E failAt \in {"none"} : DrvInit(failAt)
    \/ \E t \in TaskIds, with_url \in BOOLEAN : ExecuteTask(t, with_url)
    \/ \E t \in TaskIds, outcome \in Outcomes : ResumeTask(t, outcome)
    \/ \E t \in TaskIds : CancelTask(t)
    \/ ClearHistory

SpecAgent == InitAgent /\ [][NextAgent]_vars

\* a ClaudeAgent under one wait_for_condition call, its driver initialised
\* before the call, during it or never
NextWait ==
    \/ \E failAt \in {"none"} : DrvInit(failAt)
    \/ \E timeout \in Timeouts, interval \in Intervals : WaitForCondition(timeout, interval)
    \/ \E outcome \in Outcomes, value \in {Some(TRUE), Some(FALSE)} : WaitPoll(outcome, value)

SpecWait == InitAgent /\ [][NextWait]_vars

\* a BrowserDriver under init() and initialize() calls that interleave at
\* their awaits, and close() between them
NextInit ==
    \/ \E c \in CallIds, via \in {"init", "initialize"} : InitCall(c, via)
    \/ \E c \in CallIds, makedirs_ok \in BOOLEAN : InitStep(c, makedirs_ok)
    \/ \E c \in CallIds : InitFail(c)
    \/ InitClose

SpecInit == InitAgent /\ [][NextInit]_vars

\* the steps of the script itself: its statements, its except clause and
\* its finally block
RunStep ==
    \/ \E failAt \in InitFailures \cup {"none"} : RunInitDriver(failAt)
    \/ \E outcome \in Outcomes : RunNavigate(outcome)
    \/ \E outcome \in Outcomes : RunScreenshot(outcome)
    \/ \E outcome \in Outcomes : RunGetTitle(outcome)
    \/ \E outcome \in Outcomes : RunEval(outcome)
    \/ \E outcome \in Outcomes : RunFill(outcome)
    \/ \E outcome \in Outcomes : RunWaitForSelector(outcome)
    \/ \E outcome \in Outcomes, observed \in Observations(script) :
          RunEvalAnalysis(outcome, observed)
    \/ \E outcome \in Outcomes : RunEvalIfCombos(outcome)
    \/ RunCollect
    \/ RunVerdict
    \/ RunExcept
    \/ \E failAt \in CloseFailures \cup {"none"} : RunFinally(failAt)

\* a run of a test script whose awaits all end: asyncio.run drives the one
\* coroutine of the script until it is over, and each driver call returns
\* or raises (the browser library bounds its waits by timeouts); the page
\* is free to write to its console or not
SpecRunLive == InitRun /\ [][NextRun]_vars /\ WF_vars(RunStep)

\* an initialised BrowserDriver whose page writes messages of any type to
\* its console, and the collection of its entries into a ConsoleDiagnostics
NextEntries ==
    \/ \E failAt \in {"none"} : DrvInit(failAt)
    \/ \E msg \in EntryMessages : DrvConsole(msg)
    \/ \E error \in PageErrors : DrvPageError(error)
    \/ DrvCollect

SpecEntries == InitDriver /\ [][NextEntries]_vars

====
